---- MODULE Spec2Model ----
(***************************************************************************)
(* A model of dragonfly-display: the command line surface                  *)
(* (dragonfly_display/cli/__init__.py), the translation functions          *)
(* (dragonfly_display/model.py) and the method injection                   *)
(* (dragonfly_display/_extend_dragonfly.py).                               *)
(*                                                                         *)
(* Text that the code inspects character by character (the output format,  *)
(* file names) is a sequence of one-character strings.  Objects of the     *)
(* collaborator libraries (dragonfly, honeybee_display, ladybug_display,   *)
(* click) are records holding what this repository reads or passes on.     *)
(***************************************************************************)
EXTENDS Integers, Sequences, FiniteSets, TLC

VARIABLES
    pc,         \* position of the running invocation
    cmd,        \* which entry point is running
    viaCli,     \* TRUE when the entry point is a click command
    cliOpts,    \* the options click handed to the command
    args,       \* the parameters of the library-level function of the cli module
    loaded,     \* the dragonfly Model objects loaded from the model files
    hbCalls,    \* arguments of every to_honeybee call, in call order
    builder,    \* arguments the honeybee_display builder received
    visSet,     \* the VisualizationSet in hand
    branch,     \* the branch of _output_vis_set_to_format that was taken
    io,         \* file and stream operations of the invocation, in order
    ret,        \* the value returned by the library-level function
    exc,        \* the exception in flight ("none" when there is none)
    raisedAt,   \* the step that raised it
    excMsg,     \* the parts of its message, outermost first
    logged,     \* TRUE once _logger.exception has recorded the failure
    exitCodes,  \* the codes given to sys.exit, in order
    env         \* the locals of the running function of model.py, when called directly

vars == <<pc, cmd, viaCli, cliOpts, args, loaded, hbCalls, builder, visSet,
          branch, io, ret, exc, raisedAt, excMsg, logged, exitCodes, env>>

(***************************************************************************)
(* Python values                                                           *)
(***************************************************************************)
\* Python's None, and the absence of a value in a record-valued variable
None == [kind |-> "none"]

(***************************************************************************)
(* Text                                                                    *)
(***************************************************************************)
\* the letters of the format names, lower case and upper case
CasePairs ==
    { <<"v", "V">>, <<"s", "S">>, <<"f", "F">>, <<"j", "J">>, <<"o", "O">>,
      <<"n", "N">>, <<"p", "P">>, <<"k", "K">>, <<"l", "L">>, <<"t", "T">>,
      <<"h", "H">>, <<"m", "M">>, <<"x", "X">> }

\* str.lower() on one character: an upper-case letter maps to its lower-case
\* form, every other character is kept
LowerChar(c) ==
    IF \E p \in CasePairs : p[2] = c
    THEN (CHOOSE p \in CasePairs : p[2] = c)[1]
    ELSE c

\* str.lower()
ToLower(s) == [i \in 1..Len(s) |-> LowerChar(s[i])]

\* str.endswith(suffix)
EndsWith(s, suffix) ==
    /\ Len(suffix) <= Len(s)
    /\ SubSeq(s, Len(s) - Len(suffix) + 1, Len(s)) = suffix

\* the index of the last "/" of a path, 0 when it has none
LastSlash(p) ==
    IF \E i \in 1..Len(p) : p[i] = "/"
    THEN CHOOSE i \in 1..Len(p) : p[i] = "/" /\ \A j \in (i+1)..Len(p) : p[j] # "/"
    ELSE 0

\* os.path.split(p): (head, tail), tail being everything after the last "/"
\* and head everything before it (a head that is only "/" is kept)
PathSplit(p) ==
    LET k == LastSlash(p) IN
    IF k = 0 THEN <<<<>>, p>>
    ELSE <<IF k = 1 THEN <<"/">> ELSE SubSeq(p, 1, k - 1), SubSeq(p, k + 1, Len(p))>>

\* os.path.join(folder, name)
PathJoin(folder, name) ==
    IF folder = <<>> THEN name
    ELSE IF folder[Len(folder)] = "/" THEN folder \o name
    ELSE folder \o <<"/">> \o name

VSF   == <<"v", "s", "f">>
JSON  == <<"j", "s", "o", "n">>
PKL   == <<"p", "k", "l">>
VTKJS == <<"v", "t", "k", "j", "s">>
HTML  == <<"h", "t", "m", "l">>

DotVtkjs == <<".">> \o VTKJS
DotHtml  == <<".">> \o HTML

\* the name of sys.stdout
StdoutName == <<"<", "s", "t", "d", "o", "u", "t", ">">>

(***************************************************************************)
(* Output targets and file operations                                      *)
(***************************************************************************)
\* output_file given as a path string
StrTarget(name) == [kind |-> "str", name |-> name]

\* output_file given as a file object with the given name attribute
StreamTarget(name) == [kind |-> "stream", name |-> name]

\* one file or stream operation
Event(op, path, data) == [op |-> op, path |-> path, data |-> data]

\* the serialized form of a VisualizationSet
Content(enc, vs) == [kind |-> "content", enc |-> enc, of |-> vs]

\* tempfile.gettempdir()
TempDir == <<"/", "t", "m", "p">>

\* the operations that create, truncate or write a file or stream
OutputOps == {"open_w", "write", "stream_write", "backend_write"}

(***************************************************************************)
(* _output_vis_set_to_format                                               *)
(***************************************************************************)
\* a dispatch on the format as given, without lower()
NormalizedFormatAsGiven(f) == f

\* output_format = output_format.lower()
NormalizedFormat(f) == ToLower(f)

\* the message of the AttributeError Python raises for a missing attribute
NoAttribute(cls, name) == [object |-> cls, has_no_attribute |-> name]

\* the outcome of one call: the branch taken, the operations done, the value
\* returned, the exception raised and the parts of its message
Outcome(b, ops, r, e) == [branch |-> b, io |-> ops, ret |-> r, exc |-> e, msg |-> <<>>]

\* the first part of the message of the error raised in place of the
\* backend's AttributeError
LadybugVtkNotice ==
    [text |-> "Ladybug-vtk must be installed in order to use --output-format vtkjs."]

\* a handler that lets the backend's own error through as it is
BackendMissingMessageOpaque(ae) == <<ae>>

\* 'Ladybug-vtk must be installed in order to use --output-format
\* vtkjs.\n{}'.format(ae)
BackendMissingMessage(ae) == <<LadybugVtkNotice, ae>>

\* 'Unrecognized output-format "{}".'.format(output_format)
UnrecognizedMessage(output_format) ==
    <<[text |-> "Unrecognized output-format"], [text |-> output_format]>>

\* a test that sends every stream through a temporary file
UsesTempFileForAnyStream(output_file) == output_file.kind \in {"none", "stream"}

\* output_file is None or (not isinstance(output_file, str) and
\* output_file.name == '<stdout>')
UsesTempFile(output_file) ==
    \/ output_file.kind = "none"
    \/ output_file.kind = "stream" /\ output_file.name = StdoutName

\* a vsf / json branch that hands the text back whatever the target is
FormatJsonAlwaysReturning(vs, output_file) ==
    LET text == Content("json", vs) IN
    IF output_file.kind = "none" THEN Outcome("vsf_json", <<>>, text, "none")
    ELSE IF output_file.kind = "str"
    THEN Outcome("vsf_json",
                 <<Event("open_w", output_file.name, None),
                   Event("write", output_file.name, text)>>, text, "none")
    ELSE Outcome("vsf_json",
                 <<Event("stream_write", output_file.name, text)>>, text, "none")

\* the vsf / json branch
FormatJson(vs, output_file) ==
    LET text == Content("json", vs) IN
    IF output_file.kind = "none" THEN Outcome("vsf_json", <<>>, text, "none")
    ELSE IF output_file.kind = "str"
    THEN Outcome("vsf_json",
                 <<Event("open_w", output_file.name, None),
                   Event("write", output_file.name, text)>>, None, "none")
    ELSE Outcome("vsf_json",
                 <<Event("stream_write", output_file.name, text)>>, None, "none")

\* the pkl branch; bytesOk says whether the stream's write accepts bytes (a
\* text stream of Python 3 does not)
FormatPkl(vs, output_file, bytesOk) ==
    LET bytes == Content("pickle", vs) IN
    IF output_file.kind = "none" THEN Outcome("pkl", <<>>, bytes, "none")
    ELSE IF output_file.kind = "str"
    THEN \* open(output_file, 'w') succeeds, then output_file.write on a str
         [Outcome("pkl", <<Event("open_w", output_file.name, None)>>, None,
                  "AttributeError") EXCEPT !.msg = <<NoAttribute("str", "write")>>]
    ELSE IF output_file.name = StdoutName
    THEN IF bytesOk
         THEN Outcome("pkl", <<Event("stream_write", output_file.name, bytes)>>,
                      None, "none")
         ELSE Outcome("pkl", <<>>, None, "TypeError")
    ELSE LET sp == PathSplit(output_file.name) IN
         Outcome("pkl", <<Event("backend_write", PathJoin(sp[1], sp[2]), bytes)>>,
                 None, "none")

\* the file name handed to the backend when the target names a file: a
\* trailing .vtkjs or .html is cut off
BackendFileName(tail) ==
    IF EndsWith(tail, DotVtkjs) THEN SubSeq(tail, 1, Len(tail) - 6)
    ELSE IF EndsWith(tail, DotHtml) THEN SubSeq(tail, 1, Len(tail) - 5)
    ELSE tail

\* what to_vtkjs and to_html may do: render, be missing because ladybug-vtk
\* is not installed, or raise an error of their own
BackendStates == {"installed", "missing", "failing"}

\* the vtkjs / html branch; fmt is the lower-cased format, backend is one of
\* BackendStates, tmp is str(uuid.uuid4())[:6]
FormatVtk(vs, fmt, output_file, backend, tmp) ==
    LET temp       == UsesTempFile(output_file)
        sp         == IF temp THEN <<TempDir, tmp>> ELSE PathSplit(output_file.name)
        out_folder == sp[1]
        out_file   == IF temp THEN tmp ELSE BackendFileName(sp[2])
        b          == IF fmt = VTKJS THEN "vtkjs" ELSE "html"
        written    == PathJoin(out_folder, out_file \o <<".">> \o fmt)
        rendered   == Content(b, vs)
        contents   == Content(IF fmt = HTML THEN "html_text" ELSE "vtkjs_base64", vs)
        render     == <<Event("backend_write", written, rendered)>>
        readback   == <<Event("read", written, None)>>
    IN
    IF backend = "missing"
    THEN [Outcome(b, <<>>, None, "AttributeError") EXCEPT
             !.msg = BackendMissingMessage(
                         NoAttribute("VisualizationSet",
                                     IF fmt = VTKJS THEN "to_vtkjs" ELSE "to_html"))]
    ELSE IF backend = "failing" THEN Outcome(b, <<>>, None, "BackendError")
    ELSE IF ~temp THEN Outcome(b, render, None, "none")
    ELSE IF output_file.kind = "none"
    THEN Outcome(b, render \o readback, contents, "none")
    ELSE Outcome(b, render \o readback
                    \o <<Event("stream_write", output_file.name, contents)>>,
                 None, "none")

\* a formatter that opens a named output file before it looks at the format
OutputVisSetToFormatOpeningFirst(vs, output_format, output_file, backend, bytesOk, tmp) ==
    LET fmt == ToLower(output_format)
        out == IF fmt \in {VSF, JSON} THEN FormatJson(vs, output_file)
               ELSE IF fmt = PKL THEN FormatPkl(vs, output_file, bytesOk)
               ELSE IF fmt \in {VTKJS, HTML}
               THEN FormatVtk(vs, fmt, output_file, backend, tmp)
               ELSE Outcome("unrecognized", <<>>, None, "ValueError")
    IN IF output_file.kind = "str"
       THEN [out EXCEPT !.io = <<Event("open_w", output_file.name, None)>> \o @]
       ELSE out

\* _output_vis_set_to_format(vis_set, output_format, output_file)
OutputVisSetToFormat(vs, output_format, output_file, backend, bytesOk, tmp) ==
    LET fmt == NormalizedFormat(output_format) IN
    IF fmt \in {VSF, JSON} THEN FormatJson(vs, output_file)
    ELSE IF fmt = PKL THEN FormatPkl(vs, output_file, bytesOk)
    ELSE IF fmt \in {VTKJS, HTML} THEN FormatVtk(vs, fmt, output_file, backend, tmp)
    ELSE [Outcome("unrecognized", <<>>, None, "ValueError") EXCEPT
             !.msg = UnrecognizedMessage(fmt)]

(***************************************************************************)
(* Python calls                                                            *)
(***************************************************************************)
\* the position of parameter p in a signature
ParamIndex(params, p) == CHOOSE i \in 1..Len(params) : params[i] = p

\* the binding of a call: positional arguments fill the parameters from the
\* left, then keywords by name, then defaults
Bind(params, defaults, pos, kw) ==
    [p \in {params[i] : i \in 1..Len(params)} |->
        IF ParamIndex(params, p) <= Len(pos) THEN pos[ParamIndex(params, p)]
        ELSE IF p \in DOMAIN kw THEN kw[p]
        ELSE defaults[p]]

\* a str argument, and a tuple or list argument
Str(v) == [kind |-> "str", value |-> v]
List(items) == [kind |-> "seq", items |-> items]

(***************************************************************************)
(* dragonfly Model objects                                                 *)
(***************************************************************************)
\* Model.from_file(path): a Model whose extents all sum to even numbers, so
\* that the center below is exact
DfModel(file, g) ==
    [kind |-> "model", file |-> file, minx |-> g[1], maxx |-> g[2],
     miny |-> g[3], maxy |-> g[4], average_height |-> g[5],
     average_height_above_ground |-> g[6], angle_tolerance |-> g[7]]

\* Point3D((max_pt.x + min_pt.x) / 2, (max_pt.y + min_pt.y) / 2, z_val)
Center(m) ==
    [x |-> (m.maxx + m.minx) \div 2, y |-> (m.maxy + m.miny) \div 2,
     z |-> m.average_height - m.average_height_above_ground]

\* model.reset_coordinate_system(center): the geometry moves so that center
\* becomes the origin
ResetCoordinateSystem(m, c) ==
    [m EXCEPT !.minx = @ - c.x, !.maxx = @ - c.x, !.miny = @ - c.y,
              !.maxy = @ - c.y, !.average_height = @ - c.z]

\* the methods this package adds to dragonfly's Model class
InjectedMethods == {"to_vis_set"}

\* model.to_honeybee(...) as called everywhere in model.py: the arguments
\* received and the Model it was called on
ToHoneybeeCall(m, use_multiplier, exclude_plenums, solve_ceiling_adjacencies, merge_method) ==
    [on |-> m, object_per_model |-> "District", use_multiplier |-> use_multiplier,
     exclude_plenums |-> exclude_plenums,
     solve_ceiling_adjacencies |-> solve_ceiling_adjacencies,
     merge_method |-> merge_method, enforce_adj |-> FALSE, enforce_solid |-> TRUE]

\* element [0] of what to_honeybee returns: the honeybee Model of that call
HbModel(call) == [kind |-> "hb_model", call |-> call]

\* the list to_honeybee returns: the honeybee Model of the call, followed by
\* any further models the collaborator chose to split off
ToHoneybeeReturn(call, extras) == <<HbModel(call)>> \o extras

\* a use of the last model of the list in place of the first
LastModel(models) == models[Len(models)]

\* the [0] after each to_honeybee call
FirstModel(models) == models[1]

\* a reset done on the caller's own object, without model.duplicate()
ResetBlockInPlace(model, reset_coordinates) ==
    IF reset_coordinates
    THEN LET center == Center(model) IN
         [heap |-> [caller |-> ResetCoordinateSystem(model, center)],
          model |-> "caller",
          resets |-> <<[on |-> "caller", center |-> center]>>]
    ELSE [heap |-> [caller |-> model], model |-> "caller", resets |-> <<>>]

\* the block under "reset the coordinate system if requested" of
\* model_to_vis_set and model_envelope_edges_to_vis_set: the objects that
\* exist after it (the caller's, and the duplicate when one was made), the
\* object the local name model refers to, and the calls of
\* reset_coordinate_system that were made
ResetBlock(model, reset_coordinates) ==
    IF reset_coordinates
    THEN LET made   == [caller |-> model, duplicate |-> model]
             center == Center(made.duplicate)
         IN [heap |-> [made EXCEPT !.duplicate = ResetCoordinateSystem(@, center)],
             model |-> "duplicate",
             resets |-> <<[on |-> "duplicate", center |-> center]>>]
    ELSE [heap |-> [caller |-> model], model |-> "caller", resets |-> <<>>]

\* a comparison that resets each model by its own center
ComparisonResetBlockOwnCenters(base_model, incoming_model, reset_coordinates) ==
    IF reset_coordinates
    THEN [heap |-> [base |-> ResetCoordinateSystem(base_model, Center(base_model)),
                    incoming |-> ResetCoordinateSystem(incoming_model,
                                                       Center(incoming_model))],
          resets |-> <<[on |-> "base", center |-> Center(base_model)],
                       [on |-> "incoming", center |-> Center(incoming_model)]>>]
    ELSE [heap |-> [base |-> base_model, incoming |-> incoming_model],
          resets |-> <<>>]

\* the block under "reset the coordinate system if requested" of
\* model_comparison_to_vis_set: no duplicate is made, the center is computed
\* once from the base model and both of the caller's objects are reset by it
ComparisonResetBlock(base_model, incoming_model, reset_coordinates) ==
    IF reset_coordinates
    THEN LET center == Center(base_model) IN
         [heap |-> [base |-> ResetCoordinateSystem(base_model, center),
                    incoming |-> ResetCoordinateSystem(incoming_model, center)],
          resets |-> <<[on |-> "base", center |-> center],
                       [on |-> "incoming", center |-> center]>>]
    ELSE [heap |-> [base |-> base_model, incoming |-> incoming_model],
          resets |-> <<>>]

(***************************************************************************)
(* model.py: model_to_vis_set                                              *)
(***************************************************************************)
ModelToVisSetParams ==
    <<"model", "use_multiplier", "exclude_plenums", "solve_ceiling_adjacencies",
      "merge_method", "color_by", "include_wireframe", "use_mesh", "hide_color_by",
      "room_attrs", "face_attrs", "grid_display_mode", "hide_grid",
      "reset_coordinates">>

ModelToVisSetDefaults ==
    [use_multiplier |-> TRUE, exclude_plenums |-> FALSE,
     solve_ceiling_adjacencies |-> FALSE, merge_method |-> "None",
     color_by |-> "type", include_wireframe |-> TRUE, use_mesh |-> TRUE,
     hide_color_by |-> FALSE, room_attrs |-> None, face_attrs |-> None,
     grid_display_mode |-> "Default", hide_grid |-> FALSE,
     reset_coordinates |-> FALSE]

\* the model that is converted: a duplicate moved to its center when
\* reset_coordinates is set, the caller's model otherwise
ModelToConvert(b) ==
    LET r == ResetBlock(b.model, b.reset_coordinates) IN r.heap[r.model]

\* the to_honeybee call of model_to_vis_set
ModelToVisSetConversion(b) ==
    ToHoneybeeCall(ModelToConvert(b), b.use_multiplier, b.exclude_plenums,
                   b.solve_ceiling_adjacencies, b.merge_method)

\* the arguments of hb_model_to_vis_set, given the list to_honeybee returned
ModelToVisSetBuilderArgsWith(b, returned) ==
    [builder |-> "hb_model_to_vis_set",
     hb_model |-> FirstModel(returned), color_by |-> b.color_by,
     include_wireframe |-> b.include_wireframe, use_mesh |-> b.use_mesh,
     hide_color_by |-> b.hide_color_by, room_attrs |-> b.room_attrs,
     face_attrs |-> b.face_attrs, grid_display_mode |-> b.grid_display_mode,
     hide_grid |-> b.hide_grid]

\* the arguments of hb_model_to_vis_set when to_honeybee returns one model
ModelToVisSetBuilderArgs(b) ==
    ModelToVisSetBuilderArgsWith(b, ToHoneybeeReturn(ModelToVisSetConversion(b), <<>>))

\* the VisualizationSet a honeybee_display builder returns for its arguments
BuiltVisSet(builderArgs) == [kind |-> "vis_set", args |-> builderArgs]

(***************************************************************************)
(* model.py: model_comparison_to_vis_set                                   *)
(***************************************************************************)
ModelComparisonParams ==
    <<"base_model", "incoming_model", "use_multiplier", "exclude_plenums",
      "solve_ceiling_adjacencies", "merge_method", "base_color", "incoming_color",
      "reset_coordinates">>

ModelComparisonDefaults ==
    [use_multiplier |-> TRUE, exclude_plenums |-> FALSE,
     solve_ceiling_adjacencies |-> FALSE, merge_method |-> "None",
     base_color |-> None, incoming_color |-> None, reset_coordinates |-> FALSE]

\* the base model and the incoming model as converted: both moved by the
\* base model's center when reset_coordinates is set
ComparisonModels(b) ==
    LET r == ComparisonResetBlock(b.base_model, b.incoming_model, b.reset_coordinates)
    IN <<r.heap.base, r.heap.incoming>>

\* the two to_honeybee calls, base first
ModelComparisonConversions(b) ==
    <<ToHoneybeeCall(ComparisonModels(b)[1], b.use_multiplier, b.exclude_plenums,
                     b.solve_ceiling_adjacencies, b.merge_method),
      ToHoneybeeCall(ComparisonModels(b)[2], b.use_multiplier, b.exclude_plenums,
                     b.solve_ceiling_adjacencies, b.merge_method)>>

\* the arguments of hb_model_comparison_to_vis_set, given the lists the two
\* to_honeybee calls returned
ModelComparisonBuilderArgsWith(b, returned) ==
    [builder |-> "hb_model_comparison_to_vis_set",
     base_model |-> FirstModel(returned[1]),
     incoming_model |-> FirstModel(returned[2]),
     base_color |-> b.base_color, incoming_color |-> b.incoming_color]

\* the same when each to_honeybee call returns one model
ModelComparisonBuilderArgs(b) ==
    ModelComparisonBuilderArgsWith(b,
        <<ToHoneybeeReturn(ModelComparisonConversions(b)[1], <<>>),
          ToHoneybeeReturn(ModelComparisonConversions(b)[2], <<>>)>>)

(***************************************************************************)
(* cli: model_to_vis_set                                                   *)
(***************************************************************************)
CliModelToVisParams ==
    <<"model_file", "full_geometry", "ceil_adjacency", "color_by",
      "exclude_wireframe", "faces", "hide_color_by", "room_attr", "face_attr",
      "text_attr", "grid_display_mode", "hide_grid", "output_format",
      "output_file", "multiplier", "no_ceil_adjacency", "wireframe", "mesh",
      "show_color_by", "color_attr", "show_grid">>

CliModelToVisDefaults ==
    [full_geometry |-> FALSE, ceil_adjacency |-> FALSE, color_by |-> "type",
     exclude_wireframe |-> FALSE, faces |-> FALSE, hide_color_by |-> FALSE,
     room_attr |-> List(<<>>), face_attr |-> List(<<>>), text_attr |-> FALSE,
     grid_display_mode |-> "Default", hide_grid |-> FALSE, output_format |-> VSF,
     output_file |-> None, multiplier |-> TRUE, no_ceil_adjacency |-> TRUE,
     wireframe |-> TRUE, mesh |-> TRUE, show_color_by |-> TRUE,
     color_attr |-> TRUE, show_grid |-> TRUE]

\* the defaults of the model-to-vis options
ModelToVisOptionDefaults ==
    [multiplier |-> TRUE, no_ceil_adjacency |-> TRUE, color_by |-> "type",
     wireframe |-> TRUE, mesh |-> TRUE, show_color_by |-> TRUE,
     room_attr |-> <<>>, face_attr |-> <<>>, color_attr |-> TRUE,
     grid_display_mode |-> "Default", show_grid |-> TRUE, output_format |-> VSF,
     output_file |-> StreamTarget(StdoutName)]

\* room_attrs = [] if len(room_attr) == 0 or room_attr[0] == '' else room_attr
CliAttrs(attr) ==
    IF Len(attr) = 0 \/ attr[1] = "" THEN List(<<>>) ELSE List(attr)

\* a command body that passes --mesh on as faces without negating it
ModelToVisCliCallMeshAsFaces(o) ==
    Bind(CliModelToVisParams, CliModelToVisDefaults,
         <<o.model_file, ~o.multiplier, ~o.no_ceil_adjacency, o.color_by,
           ~o.wireframe, o.mesh, ~o.show_color_by, CliAttrs(o.room_attr),
           CliAttrs(o.face_attr), ~o.color_attr, o.grid_display_mode,
           ~o.show_grid, o.output_format, o.output_file>>, <<>>)

\* the body of the model-to-vis command: the call it makes
ModelToVisCliCall(o) ==
    Bind(CliModelToVisParams, CliModelToVisDefaults,
         <<o.model_file, ~o.multiplier, ~o.no_ceil_adjacency, o.color_by,
           ~o.wireframe, ~o.mesh, ~o.show_color_by, CliAttrs(o.room_attr),
           CliAttrs(o.face_attr), ~o.color_attr, o.grid_display_mode,
           ~o.show_grid, o.output_format, o.output_file>>, <<>>)

\* [x] if isinstance(x, str) else x
AttrItems(x) == IF x.kind = "str" THEN <<x.value>> ELSE x.items

\* a descriptor that is colored whatever the mode
AttributeAlwaysColored(cls, a, color, text) ==
    [cls |-> cls, name |-> a, attrs |-> <<a>>, color |-> TRUE, text |-> text]

\* FaceAttribute(name=fa, attrs=[fa], color=color_attr, text=text_attr), and
\* the same for RoomAttribute
Attribute(cls, a, color, text) ==
    [cls |-> cls, name |-> a, attrs |-> <<a>>, color |-> color, text |-> text]

\* the descriptors built from the attribute names, in their order
Attributes(cls, x, text_attr) ==
    [i \in 1..Len(AttrItems(x)) |->
        Attribute(cls, AttrItems(x)[i], ~text_attr, text_attr)]

\* a function that takes multiplier, wireframe, mesh and color_attr as they
\* were passed in
ToVisSetCallReadingKeywords(a, model_obj) ==
    Bind(ModelToVisSetParams, ModelToVisSetDefaults,
         <<model_obj, a.multiplier, a.ceil_adjacency>>,
         [color_by |-> a.color_by, include_wireframe |-> a.wireframe,
          use_mesh |-> a.mesh, hide_color_by |-> a.hide_color_by,
          room_attrs |-> Attributes("RoomAttribute", a.room_attr, ~a.color_attr),
          face_attrs |-> Attributes("FaceAttribute", a.face_attr, ~a.color_attr),
          grid_display_mode |-> a.grid_display_mode, hide_grid |-> a.hide_grid])

\* model_obj.to_vis_set(multiplier, ceil_adjacency, color_by=..., ...): the
\* parameters of model.py's model_to_vis_set as this call binds them
ToVisSetCall(a, model_obj) ==
    Bind(ModelToVisSetParams, ModelToVisSetDefaults,
         <<model_obj, ~a.full_geometry, a.ceil_adjacency>>,
         [color_by |-> a.color_by, include_wireframe |-> ~a.exclude_wireframe,
          use_mesh |-> ~a.faces, hide_color_by |-> a.hide_color_by,
          room_attrs |-> Attributes("RoomAttribute", a.room_attr, a.text_attr),
          face_attrs |-> Attributes("FaceAttribute", a.face_attr, a.text_attr),
          grid_display_mode |-> a.grid_display_mode, hide_grid |-> a.hide_grid])

(***************************************************************************)
(* cli: model_comparison_to_vis_set                                        *)
(***************************************************************************)
CliComparisonParams ==
    <<"base_model_file", "incoming_model_file", "full_geometry", "ceil_adjacency",
      "base_color", "incoming_color", "output_format", "output_file">>

CliComparisonDefaults ==
    [full_geometry |-> FALSE, ceil_adjacency |-> FALSE, base_color |-> "#74eded",
     incoming_color |-> "#ed7474", output_format |-> VSF, output_file |-> None]

\* the defaults of the model-comparison-to-vis options
ComparisonOptionDefaults ==
    [multiplier |-> TRUE, no_ceil_adjacency |-> TRUE, base_color |-> "#74eded",
     incoming_color |-> "#ed7474", output_format |-> VSF,
     output_file |-> StreamTarget(StdoutName)]

\* the body of the model-comparison-to-vis command: the call it makes
ComparisonCliCall(o) ==
    Bind(CliComparisonParams, CliComparisonDefaults,
         <<o.base_model_file, o.incoming_model_file, ~o.multiplier,
           ~o.no_ceil_adjacency, o.base_color, o.incoming_color,
           o.output_format, o.output_file>>, <<>>)

\* the alpha the comparison colors are given
ComparisonAlpha == 128

\* Color.from_hex(code) followed by color.a = 128; parsedAlpha is the alpha
\* the parsed color carried
ComparisonColor(code, parsedAlpha) ==
    [[kind |-> "color", hex |-> code, a |-> parsedAlpha] EXCEPT !.a = ComparisonAlpha]

\* base_model.to_vis_set_comparison(incoming_model, multiplier, ceil_adjacency,
\* base_color, incoming_color): the parameters of model.py's
\* model_comparison_to_vis_set as this call binds them
ToVisSetComparisonCall(a, base_model, incoming_model, base_color, incoming_color) ==
    Bind(ModelComparisonParams, ModelComparisonDefaults,
         <<base_model, incoming_model, ~a.full_geometry, a.ceil_adjacency,
           base_color, incoming_color>>, <<>>)

\* a command that exits with 0 whatever happened
CliExitCodeAlwaysZero(e) == 0

\* sys.exit(1) in the except clause, sys.exit(0) in the else clause
CliExitCode(e) == IF e = "none" THEN 0 ELSE 1

(***************************************************************************)
(* model.py: model_envelope_edges_to_vis_set                               *)
(***************************************************************************)
\* Angles are whole multiples of a fraction of a degree: UnitsPerDegree of
\* them make one degree, so pi/180 rad is UnitsPerDegree units.
UnitsPerDegree == 2

\* math.pi / 2
HalfPi == 90 * UnitsPerDegree

\* math.radians(degrees)
Radians(degrees) == degrees * UnitsPerDegree

\* the layers in the order the docstring gives them
DocumentedOrder ==
    <<"Roofs_to_Walls", "Slabs_to_Walls", "Exposed_Floors_to_Walls",
      "Interior_Floors_to_Walls", "Walls_to_Walls", "Roof_Ridges",
      "Exposed_Floors_to_Floors", "Underground", "Window_Frames",
      "Window_Mullions", "Door_Frames", "Door_Mullions">>

\* the layers hb_model_envelope_edges_to_vis_set may produce, in its order:
\* the documented ones but the layer added here, and Roofs_to_Roofs, which
\* the scan for the insertion point also looks for
CollaboratorOrder ==
    <<"Roofs_to_Walls", "Slabs_to_Walls", "Exposed_Floors_to_Walls",
      "Walls_to_Walls", "Roof_Ridges", "Roofs_to_Roofs",
      "Exposed_Floors_to_Floors", "Underground", "Window_Frames",
      "Window_Mullions", "Door_Frames", "Door_Mullions">>

\* the same order for a collaborator that makes a layer for the interior
\* floor edges itself, under the name this function uses
AnyCollaboratorOrder ==
    SubSeq(CollaboratorOrder, 1, 3) \o <<"Interior_Floors_to_Walls">>
    \o SubSeq(CollaboratorOrder, 4, Len(CollaboratorOrder))

\* a ContextGeometry built by the collaborator
CollaboratorLayer(n) ==
    [identifier |-> n, display_name |-> n, geometry |-> <<[kind |-> "collaborator"]>>]

\* str(coplanar_type)
PyStr(x) == IF x = None THEN "None" ELSE x.value

\* the policy with its two outcomes swapped
ExcludeCoplanarSwapped(coplanar_type) == IF coplanar_type = "All" THEN TRUE ELSE FALSE

\* exclude_coplanar = False if coplanar_type == 'All' else True
ExcludeCoplanar(coplanar_type) == IF coplanar_type = "All" THEN FALSE ELSE TRUE

\* the wall-to-wall edges classified_envelope_edges returns for the given
\* exclude_coplanar
ExtWallsToWalls(hb, exclude_coplanar) ==
    SelectSeq(hb.walls_to_walls, LAMBDA e : ~exclude_coplanar \/ ~e.coplanar)

\* hb_model_envelope_edges_to_vis_set(hb_model, exclude_coplanar,
\* mullion_thickness): the layers named in others, and Walls_to_Walls when
\* the model has such edges under the given exclude_coplanar
CollaboratorVisSet(hb, exclude_coplanar, others) ==
    LET shown(n) == IF n = "Walls_to_Walls"
                    THEN Len(ExtWallsToWalls(hb, exclude_coplanar)) # 0
                    ELSE n \in others
        names == SelectSeq(AnyCollaboratorOrder, shown)
    IN [i \in 1..Len(names) |-> CollaboratorLayer(names[i])]

\* the to_honeybee call of model_envelope_edges_to_vis_set (merge_method is
\* left to the collaborator's default)
EnvelopeConversion(m) == ToHoneybeeCall(m, FALSE, TRUE, TRUE, "(default)")

\* min_ang and max_ang
MinAng(m) == HalfPi - Radians(m.angle_tolerance)
MaxAng(m) == HalfPi + Radians(m.angle_tolerance)

\* a test that leaves out the edges at exactly min_ang and max_ang
InteriorFloorPlateToWallStrict(hb, m) ==
    SelectSeq(ExtWallsToWalls(hb, FALSE),
              LAMBDA e : MinAng(m) < e.angle /\ e.angle < MaxAng(m))

\* the edges kept by min_ang <= up_vec.angle(edge.v) <= max_ang
InteriorFloorPlateToWall(hb, m) ==
    SelectSeq(ExtWallsToWalls(hb, FALSE),
              LAMBDA e : MinAng(m) <= e.angle /\ e.angle <= MaxAng(m))

\* [DisplayLineSegment3D(seg, color, 2) for seg in interior_floor_plate_to_wall]
DisplayEdges(segs) ==
    [i \in 1..Len(segs) |->
        [kind |-> "DisplayLineSegment3D", seg |-> segs[i],
         color |-> <<200, 255, 200>>, line_width |-> 2]]

\* the ContextGeometry for the interior floor edges
InteriorLayer(display_edges) ==
    [identifier |-> "Interior_Floors_to_Walls",
     display_name |-> "Interior Floors to Walls", geometry |-> display_edges]

\* the identifiers the scan stops at
InsertBefore == {"Walls_to_Walls", "Roof_Ridges", "Roofs_to_Roofs"}

\* a scan without the break: the last match wins
InsertIndexLastMatch(vis_set) ==
    IF \E i \in 1..Len(vis_set) : vis_set[i].identifier \in InsertBefore
    THEN <<(CHOOSE i \in 1..Len(vis_set) :
                /\ vis_set[i].identifier \in InsertBefore
                /\ \A j \in (i + 1)..Len(vis_set) :
                      vis_set[j].identifier \notin InsertBefore) - 1>>
    ELSE <<>>

\* insert_index after the scan: <<>> for None, else <<i>> with i counted
\* from 0
InsertIndex(vis_set) ==
    IF \E i \in 1..Len(vis_set) : vis_set[i].identifier \in InsertBefore
    THEN <<(CHOOSE i \in 1..Len(vis_set) :
                /\ vis_set[i].identifier \in InsertBefore
                /\ \A j \in 1..(i - 1) : vis_set[j].identifier \notin InsertBefore) - 1>>
    ELSE <<>>

\* an add_geometry that puts the layer in the place of the one at the index
AddGeometryReplacing(vis_set, geo, insert_index) ==
    IF insert_index = <<>> THEN Append(vis_set, geo)
    ELSE SubSeq(vis_set, 1, insert_index[1]) \o <<geo>>
         \o SubSeq(vis_set, insert_index[1] + 2, Len(vis_set))

\* vis_set.add_geometry(geo, insert_index): appended when the index is None,
\* else put in front of the layer at that index
AddGeometry(vis_set, geo, insert_index) ==
    IF insert_index = <<>> THEN Append(vis_set, geo)
    ELSE SubSeq(vis_set, 1, insert_index[1]) \o <<geo>>
         \o SubSeq(vis_set, insert_index[1] + 1, Len(vis_set))

\* a post-processing step without the len(display_edges) != 0 test
EnvelopePostProcessNoEmptyCheck(vis_set, coplanar_type, hb, m) ==
    IF coplanar_type = "FloorPlatesOnly"
    THEN AddGeometry(vis_set, InteriorLayer(DisplayEdges(InteriorFloorPlateToWall(hb, m))),
                     InsertIndex(vis_set))
    ELSE vis_set

\* lines 215 to 241: the set that is returned
EnvelopePostProcess(vis_set, coplanar_type, hb, m) ==
    IF coplanar_type = "FloorPlatesOnly"
    THEN LET display_edges == DisplayEdges(InteriorFloorPlateToWall(hb, m)) IN
         IF Len(display_edges) # 0
         THEN AddGeometry(vis_set, InteriorLayer(display_edges), InsertIndex(vis_set))
         ELSE vis_set
    ELSE vis_set

(***************************************************************************)
(* Inputs                                                                  *)
(***************************************************************************)
UpperChar(c) ==
    IF \E p \in CasePairs : p[1] = c
    THEN (CHOOSE p \in CasePairs : p[1] = c)[2]
    ELSE c

\* every way of writing the word w in upper-case and lower-case letters
RECURSIVE CaseVariants(_)
CaseVariants(w) ==
    IF w = <<>> THEN {<<>>}
    ELSE {<<c>> \o r : c \in {w[1], UpperChar(w[1])}, r \in CaseVariants(Tail(w))}

FormatNames == {VSF, JSON, PKL, VTKJS, HTML}

\* format strings that name a format in some mix of cases
RecognizedFormats == UNION {CaseVariants(w) : w \in FormatNames}

\* format strings that name none
UnrecognizedFormats ==
    { <<>>, <<"x", "m", "l">>, <<"X", "M", "L">>, <<"v", "s">>,
      <<"v", "s", "f", " ">>, <<".", "h", "t", "m", "l">>, <<"p", "k", "1">>,
      <<"J", "S", "O", "N", "L">> }

Formats == RecognizedFormats \cup UnrecognizedFormats

ModelFile    == <<"m", ".", "d", "f", "j", "s", "o", "n">>
BaseFile     == <<"b", ".", "d", "f", "j", "s", "o", "n">>
IncomingFile == <<"i", ".", "d", "f", "j", "s", "o", "n">>

\* output paths: one with an extension, one in a folder, one bare
OutputPaths ==
    { <<"o", ".", "h", "t", "m", "l">>,
      <<"d", "/", "o", ".", "v", "t", "k", "j", "s">>,
      <<"o", "u", "t">> }

\* what click.File('w') hands to a command: sys.stdout for '-', else a file
\* object named by the path
CliTargets == {StreamTarget(StdoutName)} \cup {StreamTarget(p) : p \in OutputPaths}

\* what a caller of the library-level functions may pass as output_file
FunctionTargets == {None} \cup {StrTarget(p) : p \in OutputPaths} \cup CliTargets

\* str(uuid.uuid4())[:6]
TmpName == <<"1", "f", "3", "a", "9", "c">>

\* model geometries: minx, maxx, miny, maxy, average_height,
\* average_height_above_ground, angle_tolerance
BoxAtOrigin == <<0, 4, 0, 2, 3, 3, 1>>
Geometries == {BoxAtOrigin, <<2, 8, -2, 4, 7, 3, 1>>}

HexCodes == {"#74eded", "#ed7474"}

\* the alpha a parsed color may carry before it is overwritten
ParsedAlphas == {0, 255}

\* model-to-vis options with every flag but the geometry and adjacency ones
\* at its default
CoreModelToVisOptions ==
    {[ModelToVisOptionDefaults EXCEPT !.multiplier = m, !.no_ceil_adjacency = n,
                                      !.output_format = f, !.output_file = t]
        @@ [model_file |-> ModelFile] :
        m \in BOOLEAN, n \in BOOLEAN, f \in Formats, t \in CliTargets}

\* the same choices made by a caller of the library-level function
CoreModelToVisArgs ==
    {Bind(CliModelToVisParams, CliModelToVisDefaults, <<ModelFile>>,
          [full_geometry |-> g, ceil_adjacency |-> c, output_format |-> f,
           output_file |-> t]) :
        g \in BOOLEAN, c \in BOOLEAN, f \in Formats, t \in FunctionTargets}

\* the comparison entry points are tried with each format name as written in
\* the documentation, and with one string that names none
ComparisonFormats == FormatNames \cup {<<"x", "m", "l">>}

CoreComparisonOptions ==
    {[ComparisonOptionDefaults EXCEPT !.multiplier = m, !.no_ceil_adjacency = n,
                                      !.base_color = bc, !.output_format = f,
                                      !.output_file = t]
        @@ [base_model_file |-> BaseFile, incoming_model_file |-> IncomingFile] :
        m \in BOOLEAN, n \in BOOLEAN, bc \in HexCodes, f \in ComparisonFormats,
        t \in CliTargets}

CoreComparisonArgs ==
    {Bind(CliComparisonParams, CliComparisonDefaults, <<BaseFile, IncomingFile>>,
          [full_geometry |-> g, ceil_adjacency |-> c, incoming_color |-> ic,
           output_format |-> f, output_file |-> t]) :
        g \in BOOLEAN, c \in BOOLEAN, ic \in HexCodes, f \in ComparisonFormats,
        t \in FunctionTargets}

(***************************************************************************)
(* The state machine                                                       *)
(***************************************************************************)
Init ==
    /\ pc = "idle"
    /\ cmd = "none"
    /\ viaCli = FALSE
    /\ cliOpts = None
    /\ args = None
    /\ loaded = <<>>
    /\ hbCalls = <<>>
    /\ builder = None
    /\ visSet = None
    /\ branch = "none"
    /\ io = <<>>
    /\ ret = None
    /\ exc = "none"
    /\ raisedAt = "none"
    /\ excMsg = <<>>
    /\ logged = FALSE
    /\ exitCodes = <<>>
    /\ env = None

\* a function that catches what a step raises and carries on with the next
NextStepSwallowing(raised, step) == step

\* where a function of this package is after one of its steps: none of them
\* has a try block, so an exception leaves the function at once
NextStep(raised, step) == IF raised THEN "raised" ELSE step

\* the model-to-vis command is run with options o
CliModelToVis(Options) ==
    /\ pc = "idle"
    /\ \E o \in Options :
        /\ cliOpts' = o
        /\ args' = ModelToVisCliCall(o)
    /\ cmd' = "model_to_vis"
    /\ viaCli' = TRUE
    /\ pc' = "load"
    /\ UNCHANGED <<loaded, hbCalls, builder, visSet, branch, io, ret, exc,
                   raisedAt, excMsg, logged, exitCodes, env>>

\* the cli module's model_to_vis_set is called as a function
CallModelToVis(Arguments) ==
    /\ pc = "idle"
    /\ \E a \in Arguments : args' = a
    /\ cmd' = "model_to_vis"
    /\ pc' = "load"
    /\ UNCHANGED <<viaCli, cliOpts, loaded, hbCalls, builder, visSet, branch, io,
                   ret, exc, raisedAt, excMsg, logged, exitCodes, env>>

\* the model-comparison-to-vis command is run with options o
CliComparison(Options) ==
    /\ pc = "idle"
    /\ \E o \in Options :
        /\ cliOpts' = o
        /\ args' = ComparisonCliCall(o)
    /\ cmd' = "comparison"
    /\ viaCli' = TRUE
    /\ pc' = "load"
    /\ UNCHANGED <<loaded, hbCalls, builder, visSet, branch, io, ret, exc,
                   raisedAt, excMsg, logged, exitCodes, env>>

\* the cli module's model_comparison_to_vis_set is called as a function
CallComparison(Arguments) ==
    /\ pc = "idle"
    /\ \E a \in Arguments : args' = a
    /\ cmd' = "comparison"
    /\ pc' = "load"
    /\ UNCHANGED <<viaCli, cliOpts, loaded, hbCalls, builder, visSet, branch, io,
                   ret, exc, raisedAt, excMsg, logged, exitCodes, env>>

\* the model files of the running invocation, in the order they are loaded
ModelFiles ==
    IF cmd = "model_to_vis" THEN <<args.model_file>>
    ELSE <<args.base_model_file, args.incoming_model_file>>

\* Model.from_file for each model file; failAt is the file whose load raises
\* (0: none), gs the geometry each file holds
LoadModels(GeometrySet) ==
    /\ pc = "load"
    /\ \E failAt \in 0..Len(ModelFiles), gs \in [1..Len(ModelFiles) -> GeometrySet] :
        LET nRead == IF failAt = 0 THEN Len(ModelFiles) ELSE failAt
            nOk   == IF failAt = 0 THEN Len(ModelFiles) ELSE failAt - 1
        IN
        /\ io' = io \o [i \in 1..nRead |-> Event("read", ModelFiles[i], None)]
        /\ loaded' = [i \in 1..nOk |-> DfModel(ModelFiles[i], gs[i])]
        /\ exc' = IF failAt = 0 THEN "none" ELSE "LoadError"
        /\ raisedAt' = IF failAt = 0 THEN "none" ELSE "load"
        /\ excMsg' = <<>>
        /\ pc' = NextStep(failAt # 0, "build")
    /\ UNCHANGED <<cmd, viaCli, cliOpts, args, hbCalls, builder, visSet, branch,
                   ret, logged, exitCodes, env>>

\* the method the cli function calls on the loaded model
BuildMethod == IF cmd = "model_to_vis" THEN "to_vis_set" ELSE "to_vis_set_comparison"

\* the parameters of the model.py function behind BuildMethod
BuildBinding(alphas) ==
    IF cmd = "model_to_vis" THEN ToVisSetCall(args, loaded[1])
    ELSE ToVisSetComparisonCall(args, loaded[1], loaded[2],
                                ComparisonColor(args.base_color, alphas[1]),
                                ComparisonColor(args.incoming_color, alphas[2]))

BuildConversions(b) ==
    IF cmd = "model_to_vis" THEN <<ModelToVisSetConversion(b)>>
    ELSE ModelComparisonConversions(b)

BuildBuilderArgs(b) ==
    IF cmd = "model_to_vis" THEN ModelToVisSetBuilderArgs(b)
    ELSE ModelComparisonBuilderArgs(b)

\* the attributes and colors are prepared and the model's method is called;
\* failAt is the to_honeybee call that raises (0: none), built says whether
\* the honeybee_display builder returns
BuildVisSet ==
    /\ pc = "build"
    /\ IF BuildMethod \notin InjectedMethods
       THEN /\ exc' = "AttributeError"
            /\ raisedAt' = "build"
            /\ excMsg' = <<NoAttribute("Model", BuildMethod)>>
            /\ pc' = NextStep(TRUE, "format")
            /\ UNCHANGED <<hbCalls, builder, visSet>>
       ELSE \E alphas \in ParsedAlphas \X ParsedAlphas, built \in BOOLEAN :
            LET b     == BuildBinding(alphas)
                convs == BuildConversions(b)
            IN \E failAt \in 0..Len(convs) :
                /\ hbCalls' = IF failAt = 0 THEN convs ELSE SubSeq(convs, 1, failAt)
                /\ builder' = IF failAt = 0 THEN BuildBuilderArgs(b) ELSE None
                /\ visSet' = IF failAt = 0 /\ built
                             THEN BuiltVisSet(BuildBuilderArgs(b)) ELSE None
                /\ exc' = IF failAt # 0 THEN "ConversionError"
                          ELSE IF ~built THEN "BuilderError" ELSE "none"
                /\ raisedAt' = IF failAt = 0 /\ built THEN "none" ELSE "build"
                /\ excMsg' = <<>>
                /\ pc' = NextStep(failAt # 0 \/ ~built, "format")
    /\ UNCHANGED <<cmd, viaCli, cliOpts, args, loaded, branch, io, ret, logged,
                   exitCodes, env>>

\* return _output_vis_set_to_format(vis_set, output_format, output_file)
Format ==
    /\ pc = "format"
    /\ \E backend \in BackendStates, bytesOk \in BOOLEAN :
        LET out == OutputVisSetToFormat(visSet, args.output_format,
                                        args.output_file, backend, bytesOk, TmpName)
        IN
        /\ branch' = out.branch
        /\ io' = io \o out.io
        /\ ret' = out.ret
        /\ exc' = out.exc
        /\ raisedAt' = IF out.exc = "none" THEN "none" ELSE "format"
        /\ excMsg' = out.msg
        /\ pc' = NextStep(out.exc # "none", "returned")
    /\ UNCHANGED <<cmd, viaCli, cliOpts, args, loaded, hbCalls, builder, visSet,
                   logged, exitCodes, env>>

\* the command's except and else clauses: log the failure, then sys.exit
CliExit ==
    /\ viaCli
    /\ pc \in {"returned", "raised"}
    /\ logged' = (exc # "none")
    /\ exitCodes' = Append(exitCodes, CliExitCode(exc))
    /\ pc' = "exited"
    /\ UNCHANGED <<cmd, viaCli, cliOpts, args, loaded, hbCalls, builder, visSet,
                   branch, io, ret, exc, raisedAt, excMsg, env>>

\* model_envelope_edges_to_vis_set is called; lines 196 to 202 pick the
\* model that is converted
EnvelopeCall(Inputs) ==
    /\ pc = "idle"
    /\ \E c \in Inputs :
        LET r == ResetBlock(c.model, c.reset_coordinates) IN
        env' = [before |-> [caller |-> c.model],
                heap |-> r.heap,
                resets |-> r.resets,
                caller_model |-> r.heap.caller,
                model |-> r.heap[r.model],
                coplanar_type |-> c.coplanar_type,
                mullion_thickness |-> c.mullion_thickness,
                reset_coordinates |-> c.reset_coordinates,
                returned |-> <<>>, hb_model |-> None, exclude_coplanar |-> FALSE,
                built |-> <<>>, vis_set |-> <<>>]
    /\ cmd' = "envelope"
    /\ pc' = "env_convert"
    /\ UNCHANGED <<viaCli, cliOpts, args, loaded, hbCalls, builder, visSet, branch,
                   io, ret, exc, raisedAt, excMsg, logged, exitCodes>>

\* model.to_honeybee(...)[0]: it raises, or returns a list whose first
\* element is a honeybee Model with one of the given lists of wall-to-wall
\* edges, followed by one of the given lists of further models
EnvelopeConvert(EdgeLists, Extras) ==
    /\ pc = "env_convert"
    /\ hbCalls' = Append(hbCalls, EnvelopeConversion(env.model))
    /\ \/ /\ exc' = "ConversionError"
          /\ raisedAt' = "env_convert"
          /\ excMsg' = <<>>
          /\ pc' = NextStep(TRUE, "env_build")
          /\ env' = env
       \/ /\ \E es \in EdgeLists, extras \in Extras :
                LET returned ==
                        <<[kind |-> "hb_model",
                           call |-> EnvelopeConversion(env.model),
                           walls_to_walls |-> es]>> \o extras
                IN env' = [env EXCEPT !.returned = returned,
                                      !.hb_model = FirstModel(returned)]
          /\ pc' = "env_build"
          /\ UNCHANGED <<exc, raisedAt, excMsg>>
    /\ UNCHANGED <<cmd, viaCli, cliOpts, args, loaded, builder, visSet, branch, io,
                   ret, logged, exitCodes>>

\* lines 209 to 213: the collaborator is asked for the set of envelope
\* edges; it raises, or builds the set with any of the given layers
EnvelopeBuild(OtherLayers) ==
    /\ pc = "env_build"
    /\ LET ct == PyStr(env.coplanar_type)
           ex == ExcludeCoplanar(ct)
       IN
       /\ builder' = [builder |-> "hb_model_envelope_edges_to_vis_set",
                      hb_model |-> env.hb_model, exclude_coplanar |-> ex,
                      mullion_thickness |-> env.mullion_thickness]
       /\ \/ /\ env' = [env EXCEPT !.coplanar_type = ct, !.exclude_coplanar = ex]
             /\ exc' = "BuilderError"
             /\ raisedAt' = "env_build"
             /\ excMsg' = <<>>
             /\ pc' = NextStep(TRUE, "env_post")
          \/ /\ \E others \in SUBSET OtherLayers :
                   env' = [env EXCEPT
                              !.coplanar_type = ct, !.exclude_coplanar = ex,
                              !.built = CollaboratorVisSet(env.hb_model, ex, others),
                              !.vis_set = CollaboratorVisSet(env.hb_model, ex, others)]
             /\ pc' = NextStep(FALSE, "env_post")
             /\ UNCHANGED <<exc, raisedAt, excMsg>>
    /\ UNCHANGED <<cmd, viaCli, cliOpts, args, loaded, hbCalls, visSet, branch, io,
                   ret, logged, exitCodes>>

\* lines 215 to 241: the FloorPlatesOnly layer is added and the set returned
EnvelopeReturn ==
    /\ pc = "env_post"
    /\ env' = [env EXCEPT !.vis_set =
                 EnvelopePostProcess(env.vis_set, env.coplanar_type, env.hb_model,
                                     env.model)]
    /\ pc' = "returned"
    /\ UNCHANGED <<cmd, viaCli, cliOpts, args, loaded, hbCalls, builder, visSet,
                   branch, io, ret, exc, raisedAt, excMsg, logged, exitCodes>>

Next ==
    \/ CliModelToVis(CoreModelToVisOptions)
    \/ CallModelToVis(CoreModelToVisArgs)
    \/ CliComparison(CoreComparisonOptions)
    \/ CallComparison(CoreComparisonArgs)
    \/ LoadModels({BoxAtOrigin})
    \/ BuildVisSet
    \/ Format
    \/ CliExit

Spec == Init /\ [][Next]_vars

(***************************************************************************)
(* The envelope-edge function on its own                                   *)
(***************************************************************************)
\* the longest list of wall-to-wall edges a honeybee Model holds
MaxEdges == 1

\* edges: upright or level, each between coplanar faces or not
EdgeKinds == {[angle |-> a, coplanar |-> c] : a \in {0, HalfPi}, c \in BOOLEAN}

EdgeListsUpTo(n) == UNION {[1..k -> EdgeKinds] : k \in 0..n}

\* the collaborator's layers other than Walls_to_Walls
OtherLayerNames ==
    {CollaboratorOrder[i] : i \in 1..Len(CollaboratorOrder)} \ {"Walls_to_Walls"}

EnvelopeInputs ==
    {[model |-> DfModel(ModelFile, BoxAtOrigin), coplanar_type |-> ct,
      mullion_thickness |-> None, reset_coordinates |-> FALSE] :
        ct \in {Str("None"), Str("FloorPlatesOnly"), Str("All"), Str("all"), None}}

NextEdges ==
    \/ EnvelopeCall(EnvelopeInputs)
    \/ EnvelopeConvert(EdgeListsUpTo(MaxEdges), {<<>>})
    \/ EnvelopeBuild(OtherLayerNames)
    \/ EnvelopeReturn

SpecEdges == Init /\ [][NextEdges]_vars

(***************************************************************************)
(* The envelope-edge function with edges near level and few layers         *)
(***************************************************************************)
\* the longest list of wall-to-wall edges tried with angles near level
MaxLevelEdges == 3

\* the angle of an upright edge, and the angles one degree from level and
\* one unit further out, on either side
NearLevelAngles ==
    {0} \cup {HalfPi + sign * (Radians(1) + u) : sign \in {-1, 1}, u \in {0, 1}}

\* lists of edges between coplanar walls with these angles
NearLevelEdgeLists ==
    UNION {[1..k -> {[angle |-> a, coplanar |-> TRUE] : a \in NearLevelAngles}] :
              k \in 0..MaxLevelEdges}

\* models with an angle tolerance of one and of two degrees
LayerInputs ==
    {[model |-> DfModel(ModelFile, <<0, 4, 0, 2, 3, 3, tol>>), coplanar_type |-> ct,
      mullion_thickness |-> None, reset_coordinates |-> FALSE] :
        tol \in {1, 2}, ct \in {Str("FloorPlatesOnly"), Str("All"), Str("None")}}

NextLayers ==
    \/ EnvelopeCall(LayerInputs)
    \/ EnvelopeConvert(NearLevelEdgeLists, {<<>>})
    \/ EnvelopeBuild({"Roofs_to_Walls", "Interior_Floors_to_Walls", "Roof_Ridges"})
    \/ EnvelopeReturn

SpecLayers == Init /\ [][NextLayers]_vars

(***************************************************************************)
(* The functions of model.py called directly                               *)
(***************************************************************************)
\* a further honeybee Model in the list to_honeybee returns
SplitOffModel == [kind |-> "hb_model", call |-> None, walls_to_walls |-> <<>>]

\* what may follow the first model of that list
ExtraModels == {<<>>, <<SplitOffModel>>}

\* the conversion options a caller may choose
ConversionOptions ==
    [use_multiplier : BOOLEAN, exclude_plenums : BOOLEAN,
     solve_ceiling_adjacencies : BOOLEAN, merge_method : {"None", "Zones"},
     reset_coordinates : BOOLEAN]

\* calls of model_to_vis_set and model_comparison_to_vis_set of model.py
LibInputs ==
    {[fn |-> "lib_model_to_vis",
      b |-> Bind(ModelToVisSetParams, ModelToVisSetDefaults,
                 <<DfModel(ModelFile, g)>>, o)] :
        g \in Geometries, o \in ConversionOptions}
    \cup
    {[fn |-> "lib_comparison",
      b |-> Bind(ModelComparisonParams, ModelComparisonDefaults,
                 <<DfModel(BaseFile, gb), DfModel(IncomingFile, gi)>>, o)] :
        gb \in Geometries, gi \in Geometries, o \in ConversionOptions}

\* one of the two functions is called: its reset block runs
LibCall(Inputs) ==
    /\ pc = "idle"
    /\ \E c \in Inputs :
        /\ cmd' = c.fn
        /\ env' = IF c.fn = "lib_model_to_vis"
                  THEN LET r == ResetBlock(c.b.model, c.b.reset_coordinates) IN
                       [b |-> c.b, before |-> [caller |-> c.b.model],
                        heap |-> r.heap, resets |-> r.resets,
                        converted |-> <<r.model>>, returned |-> <<>>]
                  ELSE LET r == ComparisonResetBlock(c.b.base_model, c.b.incoming_model,
                                                     c.b.reset_coordinates) IN
                       [b |-> c.b,
                        before |-> [base |-> c.b.base_model,
                                    incoming |-> c.b.incoming_model],
                        heap |-> r.heap, resets |-> r.resets,
                        converted |-> <<"base", "incoming">>, returned |-> <<>>]
    /\ pc' = "lib_convert"
    /\ UNCHANGED <<viaCli, cliOpts, args, loaded, hbCalls, builder, visSet, branch,
                   io, ret, exc, raisedAt, excMsg, logged, exitCodes>>

\* the to_honeybee calls of the running function, in order; failAt is the
\* call that raises (0: none), extras what follows the first model of each
\* returned list
LibConvert(Extras) ==
    /\ pc = "lib_convert"
    /\ LET convs == IF cmd = "lib_model_to_vis"
                    THEN <<ModelToVisSetConversion(env.b)>>
                    ELSE ModelComparisonConversions(env.b)
       IN \E failAt \in 0..Len(convs), extras \in [1..Len(convs) -> Extras] :
            LET nOk == IF failAt = 0 THEN Len(convs) ELSE failAt - 1 IN
            /\ hbCalls' = IF failAt = 0 THEN convs ELSE SubSeq(convs, 1, failAt)
            /\ env' = [env EXCEPT !.returned =
                          [i \in 1..nOk |-> ToHoneybeeReturn(convs[i], extras[i])]]
            /\ exc' = IF failAt = 0 THEN "none" ELSE "ConversionError"
            /\ raisedAt' = IF failAt = 0 THEN "none" ELSE "lib_convert"
            /\ excMsg' = <<>>
            /\ pc' = NextStep(failAt # 0, "lib_build")
    /\ UNCHANGED <<cmd, viaCli, cliOpts, args, loaded, builder, visSet, branch, io,
                   ret, logged, exitCodes>>

\* the honeybee_display builder is called and its set returned
LibBuild ==
    /\ pc = "lib_build"
    /\ builder' = IF cmd = "lib_model_to_vis"
                  THEN ModelToVisSetBuilderArgsWith(env.b, env.returned[1])
                  ELSE ModelComparisonBuilderArgsWith(env.b, env.returned)
    /\ \E built \in BOOLEAN :
        /\ visSet' = IF built THEN BuiltVisSet(builder') ELSE None
        /\ exc' = IF built THEN "none" ELSE "BuilderError"
        /\ raisedAt' = IF built THEN "none" ELSE "lib_build"
        /\ excMsg' = <<>>
        /\ pc' = NextStep(~built, "returned")
    /\ UNCHANGED <<cmd, viaCli, cliOpts, args, loaded, hbCalls, branch, io, ret,
                   logged, exitCodes, env>>

\* the envelope-edge function as called next to the other two
LibEnvelopeInputs ==
    {[model |-> DfModel(ModelFile, g), coplanar_type |-> ct,
      mullion_thickness |-> None, reset_coordinates |-> r] :
        g \in Geometries, ct \in {Str("FloorPlatesOnly"), Str("All")},
        r \in BOOLEAN}

LibEdgeLists == {<<>>, <<[angle |-> HalfPi, coplanar |-> TRUE]>>}

NextLib ==
    \/ LibCall(LibInputs)
    \/ LibConvert(ExtraModels)
    \/ LibBuild
    \/ EnvelopeCall(LibEnvelopeInputs)
    \/ EnvelopeConvert(LibEdgeLists, ExtraModels)
    \/ EnvelopeBuild({"Roof_Ridges"})
    \/ EnvelopeReturn

SpecLib == Init /\ [][NextLib]_vars

(***************************************************************************)
(* model-to-vis with its flags and attributes                              *)
(***************************************************************************)
\* what --room-attr and --face-attr may collect: no occurrence, one or two
\* names, and occurrences with an empty value
RoomAttrOptions ==
    {<<>>, <<"display_name">>, <<"">>, <<"", "display_name">>, <<"display_name", "">>}
FaceAttrOptions == {<<>>, <<"type", "boundary_condition.name">>, <<"", "type">>}

\* every combination of the boolean flags but the adjacency one, with some
\* attributes, written as JSON to standard output
FlagOptions ==
    {[ModelToVisOptionDefaults EXCEPT !.multiplier = m, !.wireframe = w,
                                      !.mesh = me, !.show_color_by = sc,
                                      !.show_grid = sg, !.color_attr = ca,
                                      !.room_attr = ra, !.face_attr = fa]
        @@ [model_file |-> ModelFile] :
        m \in BOOLEAN, w \in BOOLEAN, me \in BOOLEAN, sc \in BOOLEAN,
        sg \in BOOLEAN, ca \in BOOLEAN, ra \in RoomAttrOptions,
        fa \in FaceAttrOptions}

\* what a caller of the function may give as room_attr and face_attr: a
\* tuple or list of strings, or one string
RoomAttrArgs == {List(<<>>), List(<<"display_name">>),
                 List(<<"display_name", "user_data.tag">>), Str("display_name")}
FaceAttrArgs == {List(<<>>), List(<<"type", "boundary_condition.name">>), Str("type")}

AttrArgs ==
    {Bind(CliModelToVisParams, CliModelToVisDefaults, <<ModelFile>>,
          [room_attr |-> ra, face_attr |-> fa, text_attr |-> t]) :
        ra \in RoomAttrArgs, fa \in FaceAttrArgs, t \in BOOLEAN}

NextOptions ==
    \/ CliModelToVis(FlagOptions)
    \/ CallModelToVis(AttrArgs)
    \/ LoadModels({BoxAtOrigin})
    \/ BuildVisSet
    \/ Format
    \/ CliExit

SpecOptions == Init /\ [][NextOptions]_vars

(***************************************************************************)
(* model_to_vis_set of the cli module with its trailing keywords            *)
(***************************************************************************)
\* calls that give every one of multiplier, no_ceil_adjacency, wireframe,
\* mesh, show_color_by, color_attr and show_grid either way, next to some of
\* the parameters that come before them
KeywordArgs ==
    {Bind(CliModelToVisParams, CliModelToVisDefaults, <<ModelFile>>,
          [full_geometry |-> n[1], ceil_adjacency |-> n[2], faces |-> n[3],
           exclude_wireframe |-> n[4], hide_color_by |-> n[4], text_attr |-> n[4],
           hide_grid |-> n[4], room_attr |-> List(<<"display_name">>),
           output_format |-> t[1], output_file |-> t[2],
           multiplier |-> k[1], no_ceil_adjacency |-> k[2], wireframe |-> k[3],
           mesh |-> k[4], show_color_by |-> k[5], color_attr |-> k[6],
           show_grid |-> k[7]]) :
        n \in [1..4 -> BOOLEAN], k \in [1..7 -> BOOLEAN],
        t \in {<<VSF, None>>, <<HTML, StrTarget(<<"o", "u", "t">>)>>}}

NextKeywords ==
    \/ CallModelToVis(KeywordArgs)
    \/ LoadModels({BoxAtOrigin})
    \/ BuildVisSet
    \/ Format

SpecKeywords == Init /\ [][NextKeywords]_vars

(***************************************************************************)
(* The library-level functions, each called by a program of its own        *)
(***************************************************************************)
\* calls of the two functions of the cli module, with the default format and
\* with html
CallerModelToVisArgs ==
    {Bind(CliModelToVisParams, CliModelToVisDefaults, <<ModelFile>>,
          [full_geometry |-> g, output_format |-> f, output_file |-> t]) :
        g \in BOOLEAN, f \in {VSF, HTML}, t \in FunctionTargets}

CallerComparisonArgs ==
    {Bind(CliComparisonParams, CliComparisonDefaults, <<BaseFile, IncomingFile>>,
          [full_geometry |-> g, output_format |-> f, output_file |-> t]) :
        g \in BOOLEAN, f \in {VSF, HTML}, t \in FunctionTargets}

NextFunctions ==
    \/ CallModelToVis(CallerModelToVisArgs)
    \/ CallComparison(CallerComparisonArgs)
    \/ LoadModels({BoxAtOrigin})
    \/ BuildVisSet
    \/ Format
    \/ LibCall(LibInputs)
    \/ LibConvert(ExtraModels)
    \/ LibBuild
    \/ EnvelopeCall(LibEnvelopeInputs)
    \/ EnvelopeConvert(LibEdgeLists, ExtraModels)
    \/ EnvelopeBuild({"Roof_Ridges"})
    \/ EnvelopeReturn

SpecFunctions == Init /\ [][NextFunctions]_vars

(***************************************************************************)
(* Properties of the command line surface, checked under Spec              *)
(***************************************************************************)
\* the formatter has been entered by the running invocation
FormatterRan == branch # "none"

C2_NoFileOperationBeforeValueError ==
    (exc = "ValueError" /\ raisedAt = "format") => io = <<>>

\* C2 as amended: an invocation with an unrecognized format reads its model
\* files before the format is looked at and never creates, truncates or
\* writes a file: up to and after its failure its file operations are reads
\* of its model files, in order, it returns nothing, and when the failure is
\* the formatter's ValueError every model file has been read and loaded.
C2_OnlyModelReadsBeforeValueError ==
    (/\ cmd \in {"model_to_vis", "comparison"}
     /\ ToLower(args.output_format) \notin FormatNames) =>
        /\ Len(io) <= Len(ModelFiles)
        /\ \A i \in 1..Len(io) :
              /\ io[i].op = "read"
              /\ io[i].op \notin OutputOps
              /\ io[i].path = ModelFiles[i]
        /\ pc # "returned"
        /\ ret = None
        /\ exc = "ValueError" =>
              /\ raisedAt = "format"
              /\ Len(io) = Len(ModelFiles)
              /\ Len(loaded) = Len(ModelFiles)

\* an unrecognized format has failed a call whose target is a path
C2_Witness ==
    /\ exc = "ValueError"
    /\ raisedAt = "format"
    /\ args.output_file.kind = "str"
    /\ args.output_format = <<"x", "m", "l">>
    /\ Len(io) = 1

\* C3: a run of either command ends with exactly one exit code, 0 when the
\* wrapped function returned and 1 (after the error was logged) when it
\* raised; a command in which the function has returned or raised can
\* always take its exit.
C3_ExitCodes ==
    /\ pc # "exited" => exitCodes = <<>>
    /\ pc = "exited" =>
          /\ viaCli
          /\ Len(exitCodes) = 1
          /\ exitCodes[1] \in {0, 1}
          /\ exitCodes[1] = 0 <=> exc = "none"
          /\ exitCodes[1] = 1 <=> exc # "none"
          /\ exc # "none" => logged
          /\ exc = "none" => ~logged /\ FormatterRan
    /\ (viaCli /\ pc \in {"returned", "raised"}) => ENABLED CliExit

\* a command whose function raised has logged the error and exited with 1
C3_Witness ==
    /\ pc = "exited"
    /\ cmd = "model_to_vis"
    /\ exc = "ValueError"
    /\ logged
    /\ exitCodes = <<1>>

\* C4 as stated: with both model files loaded and a recognized format, the
\* comparison never raises, the command exits with 0, and the builder was
\* given both the base and the incoming model.
C4_ComparisonNeverErrors ==
    (/\ cmd = "comparison"
     /\ Len(loaded) = 2
     /\ ToLower(args.output_format) \in FormatNames
     /\ pc \in {"format", "returned", "raised", "exited"}) =>
        /\ exc = "none"
        /\ pc = "exited" => exitCodes = <<0>>
        /\ builder # None
        /\ builder.builder = "hb_model_comparison_to_vis_set"

\* C5 as stated: once the comparison has got past its build step, the
\* builder has received, as base_color and incoming_color, the colors of the
\* two hex codes with alpha 128.
C5_ComparisonColorsReachBuilder ==
    (/\ cmd = "comparison"
     /\ Len(loaded) = 2
     /\ pc \in {"format", "returned", "raised", "exited"}
     /\ exc \notin {"ConversionError", "BuilderError"}) =>
        /\ builder # None
        /\ builder.base_color =
              [kind |-> "color", hex |-> args.base_color, a |-> 128]
        /\ builder.incoming_color =
              [kind |-> "color", hex |-> args.incoming_color, a |-> 128]

\* C6 as stated: every to_honeybee call of the two commands receives the
\* ceiling-adjacency choice as solve_ceiling_adjacencies and leaves
\* exclude_plenums at False.
C6_CeilAdjacencyForwarded ==
    (cmd \in {"model_to_vis", "comparison"}) =>
        \A i \in 1..Len(hbCalls) :
            /\ hbCalls[i].solve_ceiling_adjacencies = args.ceil_adjacency
            /\ hbCalls[i].exclude_plenums = FALSE

(***************************************************************************)
(* Properties of the envelope-edge function, checked under SpecEdges       *)
(***************************************************************************)
\* model_envelope_edges_to_vis_set has returned
EnvelopeReturned == cmd = "envelope" /\ pc = "returned"

\* some wall-to-wall edge of the honeybee Model, coplanar or not, is within
\* the model's angle tolerance (in degrees) of level
SomeEdgeLevel ==
    \E i \in 1..Len(env.hb_model.walls_to_walls) :
        LET a == env.hb_model.walls_to_walls[i].angle IN
        /\ (90 - env.model.angle_tolerance) * UnitsPerDegree <= a
        /\ a <= (90 + env.model.angle_tolerance) * UnitsPerDegree

\* the positions of the returned set that hold a layer made by this function
AddedAt ==
    {k \in 1..Len(env.vis_set) :
        /\ env.vis_set[k].identifier = "Interior_Floors_to_Walls"
        /\ env.vis_set[k].geometry # <<>>
        /\ \A g \in 1..Len(env.vis_set[k].geometry) :
              env.vis_set[k].geometry[g].kind = "DisplayLineSegment3D"}

\* the sequence s without its k-th element
Without(s, k) == SubSeq(s, 1, k - 1) \o SubSeq(s, k + 1, Len(s))

C8_LayerOnlyForKeptFloorPlates ==
    EnvelopeReturned =>
        /\ env.vis_set # env.built =>
              env.coplanar_type = "FloorPlatesOnly" /\ SomeEdgeLevel
        /\ ~(env.coplanar_type = "FloorPlatesOnly" /\ SomeEdgeLevel) =>
              /\ env.vis_set = env.built
              /\ \A k \in 1..Len(env.vis_set) :
                    env.vis_set[k].identifier # "Interior_Floors_to_Walls"

\* FloorPlatesOnly with wall-to-wall edges of which none is kept: the
\* collaborator's non-empty set is returned as built
C8_Witness ==
    /\ EnvelopeReturned
    /\ env.coplanar_type = "FloorPlatesOnly"
    /\ env.hb_model.walls_to_walls # <<>>
    /\ ~SomeEdgeLevel
    /\ env.built # <<>>
    /\ env.vis_set = env.built

\* the collaborator's builder has been called by the envelope-edge function
EnvelopeBuilt == cmd = "envelope" /\ pc \in {"env_post", "returned"}

\* C9 as stated: 'None' includes all coplanar edges and 'All' excludes none,
\* that is, both hand exclude_coplanar = False to the builder.
C9_NoneIncludesCoplanarEdges ==
    EnvelopeBuilt =>
        /\ env.coplanar_type = "None" => builder.exclude_coplanar = FALSE
        /\ env.coplanar_type = "All" => builder.exclude_coplanar = FALSE

\* C9 as amended: 'All' excludes no coplanar edge (exclude_coplanar False);
\* 'None', 'FloorPlatesOnly' and every other value exclude them all
\* (exclude_coplanar True), so that with 'None' the Walls_to_Walls layer is
\* there only when some wall-to-wall edge is not coplanar.
C9_OnlyAllIncludesCoplanarEdges ==
    EnvelopeBuilt =>
        /\ builder.exclude_coplanar = (env.coplanar_type # "All")
        /\ env.exclude_coplanar = builder.exclude_coplanar
        /\ env.coplanar_type = "None" =>
              ((\E i \in 1..Len(env.built) : env.built[i].identifier = "Walls_to_Walls")
               <=> (\E j \in 1..Len(env.hb_model.walls_to_walls) :
                        ~env.hb_model.walls_to_walls[j].coplanar))

\* 'None' with a coplanar wall-to-wall edge: the edge is excluded
C9_Witness ==
    /\ EnvelopeReturned
    /\ env.coplanar_type = "None"
    /\ builder.exclude_coplanar = TRUE
    /\ env.hb_model.walls_to_walls # <<>>
    /\ \A i \in 1..Len(env.vis_set) : env.vis_set[i].identifier # "Walls_to_Walls"

\* the place of a layer name in the documented order
DocumentedIndex(n) == CHOOSE i \in 1..Len(DocumentedOrder) : DocumentedOrder[i] = n

\* C10 as stated: when the collaborator's layers are documented ones, in the
\* documented order, the returned set holds its layers in that order.
C10_DocumentedOrder ==
    (/\ EnvelopeReturned
     /\ \A i \in 1..Len(env.built) :
           \E d \in 1..Len(DocumentedOrder) : DocumentedOrder[d] = env.built[i].identifier) =>
        \A i, j \in 1..Len(env.vis_set) :
            i < j => DocumentedIndex(env.vis_set[i].identifier)
                        < DocumentedIndex(env.vis_set[j].identifier)

(***************************************************************************)
(* Properties of the functions of model.py, checked under SpecLib          *)
(***************************************************************************)
\* the reset_coordinates argument of the running function
ResetRequested ==
    IF cmd = "envelope" THEN env.reset_coordinates ELSE env.b.reset_coordinates

\* C11: model_to_vis_set and model_envelope_edges_to_vis_set leave the
\* caller's model as it was: with reset_coordinates the one reset is made on
\* a duplicate, by the center of the model, and the duplicate is what gets
\* converted; without it no reset is made, no duplicate exists and the
\* caller's model is what gets converted.
C11_CallerModelUnchanged ==
    (cmd \in {"lib_model_to_vis", "envelope"}) =>
        /\ env.heap.caller = env.before.caller
        /\ ResetRequested =>
              /\ DOMAIN env.heap = {"caller", "duplicate"}
              /\ Len(env.resets) = 1
              /\ env.resets[1].on = "duplicate"
              /\ env.resets[1].center = Center(env.before.caller)
              /\ env.heap.duplicate.minx
                    = env.before.caller.minx - env.resets[1].center.x
              /\ env.heap.duplicate.maxy
                    = env.before.caller.maxy - env.resets[1].center.y
              /\ \A i \in 1..Len(hbCalls) : hbCalls[i].on = env.heap.duplicate
        /\ ~ResetRequested =>
              /\ DOMAIN env.heap = {"caller"}
              /\ env.resets = <<>>
              /\ \A i \in 1..Len(hbCalls) : hbCalls[i].on = env.before.caller

\* model_to_vis_set has returned after a reset that moved the duplicate away
\* from where the caller's model is
C11_Witness ==
    /\ cmd = "lib_model_to_vis"
    /\ pc = "returned"
    /\ env.b.reset_coordinates
    /\ Len(hbCalls) = 1
    /\ hbCalls[1].on # env.before.caller
    /\ env.heap.caller = env.before.caller

\* C12: in model_comparison_to_vis_set with reset_coordinates, the base model
\* and then the incoming model are reset by one center, the one of the base
\* model as it was at the call; the incoming model's extents do not enter
\* it, and the models that get converted are the two reset ones.
C12_BothResetByBaseCenter ==
    (cmd = "lib_comparison" /\ env.b.reset_coordinates) =>
        LET center == Center(env.before.base) IN
        /\ Len(env.resets) = 2
        /\ env.resets[1] = [on |-> "base", center |-> center]
        /\ env.resets[2] = [on |-> "incoming", center |-> center]
        /\ \A k \in {"base", "incoming"} :
              /\ env.heap[k].minx = env.before[k].minx - center.x
              /\ env.heap[k].maxx = env.before[k].maxx - center.x
              /\ env.heap[k].miny = env.before[k].miny - center.y
              /\ env.heap[k].maxy = env.before[k].maxy - center.y
              /\ env.heap[k].average_height = env.before[k].average_height - center.z
        /\ Len(hbCalls) >= 1 => hbCalls[1].on = env.heap.base
        /\ Len(hbCalls) >= 2 => hbCalls[2].on = env.heap.incoming

\* a comparison of two models with different centers has been reset and
\* converted
C12_Witness ==
    /\ cmd = "lib_comparison"
    /\ pc = "returned"
    /\ env.b.reset_coordinates
    /\ Center(env.before.base) # Center(env.before.incoming)
    /\ Len(hbCalls) = 2
    /\ env.heap.incoming # env.before.incoming

(***************************************************************************)
(* Properties of the output formatter, checked under Spec                  *)
(***************************************************************************)
\* the operations of the formatter: those after the reads of the model files
FormatterOps == SubSeq(io, Len(ModelFiles) + 1, Len(io))

\* C13 as stated: with format pkl and a path string as target the formatter
\* completes and the pickled set is written to the file at that path; with
\* no target the pickled bytes are returned; with a stream that takes them
\* they are written to the stream or to the file it names.
C13_PklPathIsWritten ==
    (cmd = "model_to_vis" /\ branch = "pkl") =>
        LET bytes == Content("pickle", visSet)
            t     == args.output_file
        IN
        /\ t.kind = "str" =>
              /\ exc = "none"
              /\ pc \in {"returned", "exited"}
              /\ \E i \in 1..Len(FormatterOps) :
                    /\ FormatterOps[i].op \in {"write", "backend_write"}
                    /\ FormatterOps[i].path = t.name
                    /\ FormatterOps[i].data = bytes
        /\ t.kind = "none" => exc = "none" /\ ret = bytes /\ FormatterOps = <<>>
        /\ (t.kind = "stream" /\ exc = "none") =>
              /\ Len(FormatterOps) = 1
              /\ FormatterOps[1].op \in {"stream_write", "backend_write"}
              /\ FormatterOps[1].data = bytes

\* C14: with vsf or json the same JSON text of the set goes to exactly one
\* place: with no target it is returned and nothing is written; with a path
\* the file at that path is opened for writing and the text written to it;
\* with a stream the stream gets the text in one write; in the two writing
\* cases nothing is returned.
C14_JsonGoesToOnePlace ==
    (cmd = "model_to_vis" /\ branch = "vsf_json") =>
        LET text == Content("json", visSet)
            t    == args.output_file
        IN
        /\ ToLower(args.output_format) \in {VSF, JSON}
        /\ exc = "none"
        /\ t.kind = "none" => ret = text /\ FormatterOps = <<>>
        /\ t.kind = "str" =>
              /\ ret = None
              /\ FormatterOps = <<Event("open_w", t.name, None),
                                  Event("write", t.name, text)>>
        /\ t.kind = "stream" =>
              /\ ret = None
              /\ FormatterOps = <<Event("stream_write", t.name, text)>>

\* the text was written to a file given by its path, under the name json
C14_Witness ==
    /\ cmd = "model_to_vis"
    /\ branch = "vsf_json"
    /\ pc = "returned"
    /\ args.output_format = JSON
    /\ args.output_file.kind = "str"
    /\ Len(FormatterOps) = 2
    /\ ret = None

\* the vtkjs / html branch was taken and the backend did its work
VtkRendered == cmd = "model_to_vis" /\ branch \in {"vtkjs", "html"} /\ exc = "none"

\* the first operation of the formatter is the backend writing a file in the
\* system's temporary directory
BackendWroteTempFile ==
    /\ Len(FormatterOps) >= 1
    /\ FormatterOps[1].op = "backend_write"
    /\ PathSplit(FormatterOps[1].path) = <<TempDir, TmpName \o <<".">> \o ToLower(args.output_format)>>

\* the file the backend wrote is read back and, as base64 text for vtkjs and
\* as UTF-8 text for html, returned (no target) or written to the stream
TempFileReadBack ==
    LET contents == Content(IF branch = "html" THEN "html_text" ELSE "vtkjs_base64",
                            visSet)
    IN
    /\ Len(FormatterOps) >= 2
    /\ FormatterOps[2] = Event("read", FormatterOps[1].path, None)
    /\ IF args.output_file.kind = "none"
       THEN ret = contents /\ Len(FormatterOps) = 2
       ELSE /\ ret = None
            /\ Len(FormatterOps) = 3
            /\ FormatterOps[3] = Event("stream_write", args.output_file.name, contents)

\* C15 as stated: with vtkjs or html and a target that is absent or a
\* stream, the backend writes a temporary file that is read back and
\* returned or written to the stream; only a path makes the backend write
\* to a place the caller named.
C15_EveryStreamGetsTempFile ==
    VtkRendered =>
        IF args.output_file.kind \in {"none", "stream"}
        THEN BackendWroteTempFile /\ TempFileReadBack
        ELSE ~BackendWroteTempFile

\* C15 as amended: the temporary file is used when the target is absent or
\* is the standard output stream; with a path, and with a stream that names
\* a file, the backend writes once into the folder of the named file, the
\* stream itself is not written to and nothing is returned.
C15_TempFileOnlyForNoneOrStdout ==
    VtkRendered =>
        IF \/ args.output_file.kind = "none"
           \/ args.output_file.kind = "stream" /\ args.output_file.name = StdoutName
        THEN BackendWroteTempFile /\ TempFileReadBack
        ELSE /\ Len(FormatterOps) = 1
             /\ FormatterOps[1].op = "backend_write"
             /\ FormatterOps[1].data = Content(branch, visSet)
             /\ PathSplit(FormatterOps[1].path)[1] = PathSplit(args.output_file.name)[1]
             /\ ret = None

\* vtkjs sent to standard output: rendered to the temporary file, read back
\* and written to the stream
C15_Witness ==
    /\ VtkRendered
    /\ branch = "vtkjs"
    /\ args.output_file = StreamTarget(StdoutName)
    /\ Len(FormatterOps) = 3
    /\ FormatterOps[3].op = "stream_write"
    /\ FormatterOps[3].data = Content("vtkjs_base64", visSet)

\* the output target names a file: a path string, or a file object other
\* than standard output
TargetNamesFile ==
    \/ args.output_file.kind = "str"
    \/ args.output_file.kind = "stream" /\ args.output_file.name # StdoutName

\* C16 as stated: once a command or function has succeeded with html or
\* vtkjs and an output file path P, the rendering has been written to a file
\* at exactly P, whatever the extension of P.
C16_RenderedFileAtGivenPath ==
    (/\ cmd \in {"model_to_vis", "comparison"}
     /\ branch \in {"vtkjs", "html"}
     /\ exc = "none"
     /\ pc \in {"returned", "exited"}
     /\ TargetNamesFile) =>
        \E i \in 1..Len(FormatterOps) :
            /\ FormatterOps[i].op \in OutputOps
            /\ FormatterOps[i].path = args.output_file.name
            /\ FormatterOps[i].data # None

\* C17: when the backend is missing, the AttributeError of to_vtkjs or
\* to_html is replaced by an AttributeError whose message starts with the
\* notice naming Ladybug-vtk and goes on with the original message, while
\* an error of another type passes as it was raised; nothing has been
\* returned or written, and a command that ran this way logs the error and
\* exits with 1.
C17_MissingBackendIsNamed ==
    (cmd = "model_to_vis" /\ branch \in {"vtkjs", "html"} /\ exc # "none") =>
        /\ exc \in {"AttributeError", "BackendError"}
        /\ raisedAt = "format"
        /\ exc = "AttributeError" =>
              /\ Len(excMsg) = 2
              /\ excMsg[1] = LadybugVtkNotice
              /\ excMsg[2] = NoAttribute("VisualizationSet",
                                         IF branch = "vtkjs" THEN "to_vtkjs"
                                         ELSE "to_html")
        /\ exc = "BackendError" => excMsg = <<>>
        /\ ret = None
        /\ FormatterOps = <<>>
        /\ pc \in {"raised", "exited"}
        /\ (viaCli /\ pc = "raised") => ENABLED CliExit
        /\ pc = "exited" => logged /\ exitCodes = <<1>>

\* the html command without the backend has ended with exit code 1
C17_Witness ==
    /\ cmd = "model_to_vis"
    /\ viaCli
    /\ branch = "html"
    /\ exc = "AttributeError"
    /\ Len(excMsg) = 2
    /\ pc = "exited"
    /\ exitCodes = <<1>>

(***************************************************************************)
(* Properties of the flags and attributes, checked under SpecOptions       *)
(***************************************************************************)
\* the attribute strings of an argument: the string itself, or the items
GivenAttrs(x) == IF x.kind = "str" THEN <<x.value>> ELSE x.items

\* the descriptors are one per given string, in order, named by it, with
\* the string as their one attribute path and exactly one of color and text
DescriptorsMatch(descriptors, cls, given, text_attr) ==
    /\ Len(descriptors) = Len(given)
    /\ \A i \in 1..Len(given) :
          /\ descriptors[i].cls = cls
          /\ descriptors[i].name = given[i]
          /\ descriptors[i].attrs = <<given[i]>>
          /\ descriptors[i].text = text_attr
          /\ descriptors[i].color = ~text_attr
          /\ descriptors[i].color # descriptors[i].text

\* C18: the room and face descriptors that model_to_vis_set of the cli
\* module hands on are one per given attribute string, in the given order,
\* with name and attribute path equal to the string, and all have
\* color = not text_attr and text = text_attr, so exactly one flag is set.
C18_DescriptorsHaveOneMode ==
    (cmd = "model_to_vis" /\ builder # None) =>
        /\ DescriptorsMatch(builder.room_attrs, "RoomAttribute",
                            GivenAttrs(args.room_attr), args.text_attr)
        /\ DescriptorsMatch(builder.face_attrs, "FaceAttribute",
                            GivenAttrs(args.face_attr), args.text_attr)

\* two room attributes and one face attribute given as a string, as text
C18_Witness ==
    /\ cmd = "model_to_vis"
    /\ builder # None
    /\ args.text_attr
    /\ Len(builder.room_attrs) = 2
    /\ args.face_attr.kind = "str"
    /\ Len(builder.face_attrs) = 1
    /\ builder.room_attrs[2].text

\* C19: the builder and the conversion receive the flags of model-to-vis as
\* the user gave them: use_multiplier = --multiplier, include_wireframe =
\* --wireframe, use_mesh = --mesh, hide_color_by = not --show-color-by,
\* hide_grid = not --show-grid, descriptors colored exactly with
\* --color-attr; with no flag given: multiplier, wireframe, mesh, color-by
\* and grid shown, color_by 'type', grid display mode 'Default', format vsf.
C19_FlagsReachBuilder ==
    (cmd = "model_to_vis" /\ viaCli /\ builder # None) =>
        /\ Len(hbCalls) = 1
        /\ hbCalls[1].use_multiplier = cliOpts.multiplier
        /\ builder.include_wireframe = cliOpts.wireframe
        /\ builder.use_mesh = cliOpts.mesh
        /\ builder.hide_color_by = ~cliOpts.show_color_by
        /\ builder.hide_grid = ~cliOpts.show_grid
        /\ builder.color_by = cliOpts.color_by
        /\ builder.grid_display_mode = cliOpts.grid_display_mode
        /\ \A i \in 1..Len(builder.room_attrs) :
              /\ builder.room_attrs[i].color = cliOpts.color_attr
              /\ builder.room_attrs[i].text = ~cliOpts.color_attr
        /\ \A i \in 1..Len(builder.face_attrs) :
              /\ builder.face_attrs[i].color = cliOpts.color_attr
              /\ builder.face_attrs[i].text = ~cliOpts.color_attr
        /\ (\A f \in {"multiplier", "wireframe", "mesh", "show_color_by",
                       "show_grid", "color_attr"} : cliOpts[f]) =>
              /\ hbCalls[1].use_multiplier
              /\ builder.include_wireframe
              /\ builder.use_mesh
              /\ ~builder.hide_color_by
              /\ ~builder.hide_grid
              /\ builder.color_by = "type"
              /\ builder.grid_display_mode = "Default"
              /\ args.output_format = VSF

\* every flag turned away from its default, with attributes as text labels
C19_Witness ==
    /\ cmd = "model_to_vis"
    /\ viaCli
    /\ pc = "exited"
    /\ exitCodes = <<0>>
    /\ \A f \in {"multiplier", "wireframe", "mesh", "show_color_by",
                  "show_grid", "color_attr"} : ~cliOpts[f]
    /\ ~hbCalls[1].use_multiplier
    /\ ~builder.use_mesh
    /\ Len(builder.face_attrs) = 2
    /\ builder.face_attrs[1].text

(***************************************************************************)
(* The conversion calls of model.py, checked under SpecLib                 *)
(***************************************************************************)
\* C20: every to_honeybee call of the three functions of model.py asks for
\* one District model with enforce_adj False and enforce_solid True, whatever
\* the caller's options; the builder is given the first model of each
\* returned list and no model that follows it, and the set is built from
\* the builder's arguments alone.
C20_FixedPolicyAndFirstModel ==
    (cmd \in {"lib_model_to_vis", "lib_comparison", "envelope"}) =>
        /\ \A i \in 1..Len(hbCalls) :
              /\ hbCalls[i].enforce_adj = FALSE
              /\ hbCalls[i].enforce_solid = TRUE
              /\ hbCalls[i].object_per_model = "District"
        /\ builder # None =>
              /\ cmd = "lib_model_to_vis" =>
                    /\ builder.hb_model = env.returned[1][1]
                    /\ builder.hb_model.call = hbCalls[1]
              /\ cmd = "lib_comparison" =>
                    /\ builder.base_model = env.returned[1][1]
                    /\ builder.incoming_model = env.returned[2][1]
                    /\ builder.base_model.call = hbCalls[1]
                    /\ builder.incoming_model.call = hbCalls[2]
              /\ cmd = "envelope" =>
                    /\ builder.hb_model = env.returned[1]
                    /\ builder.hb_model.call = hbCalls[1]
                    /\ env.hb_model = env.returned[1]
        /\ visSet # None => visSet = BuiltVisSet(builder)

\* a comparison whose two conversions each returned a further model, called
\* with options away from their defaults
C20_Witness ==
    /\ cmd = "lib_comparison"
    /\ pc = "returned"
    /\ ~env.b.use_multiplier
    /\ env.b.exclude_plenums
    /\ Len(env.returned[1]) = 2
    /\ Len(env.returned[2]) = 2
    /\ builder.incoming_model = env.returned[2][1]

(***************************************************************************)
(* Failures inside the library-level functions, checked under              *)
(* SpecFunctions                                                           *)
(***************************************************************************)
\* a library-level function, called as a function, has failed in loading a
\* model, in a conversion or in the build
LibraryFunctionFailed ==
    /\ ~viaCli
    /\ raisedAt \in {"load", "build", "lib_convert", "lib_build", "env_convert",
                     "env_build"}

\* C21: a failure of model loading, of a to_honeybee conversion or of the
\* builder inside a library-level function leaves the function at once: the
\* function is left with the exception, no step after the failing one has
\* run (no later load, conversion, build, post-processing or formatting), no
\* step has run twice, nothing is caught or logged, nothing is returned and
\* the only file operations are the reads of the model files.
C21_FailurePropagates ==
    LibraryFunctionFailed =>
        /\ pc = "raised"
        /\ exc # "none"
        /\ ret = None
        /\ visSet = None
        /\ branch = "none"
        /\ ~logged
        /\ exitCodes = <<>>
        /\ \A i \in 1..Len(io) : io[i].op = "read" /\ io[i].op \notin OutputOps
        /\ \A i, j \in 1..Len(hbCalls) : i # j => hbCalls[i] # hbCalls[j]
        /\ cmd \in {"model_to_vis", "comparison"} =>
              /\ Len(io) <= Len(ModelFiles)
              /\ \A i \in 1..Len(io) : io[i].path = ModelFiles[i]
              /\ raisedAt = "load" =>
                    /\ Len(loaded) = Len(io) - 1
                    /\ hbCalls = <<>>
                    /\ builder = None
              /\ raisedAt = "build" =>
                    /\ Len(loaded) = Len(ModelFiles)
                    /\ Len(io) = Len(ModelFiles)
                    /\ Len(hbCalls) <= Len(ModelFiles)
                    /\ exc = "ConversionError" => builder = None /\ Len(hbCalls) >= 1
                    /\ exc = "BuilderError" =>
                          builder # None /\ Len(hbCalls) = Len(ModelFiles)
        /\ cmd \in {"lib_model_to_vis", "lib_comparison"} =>
              /\ io = <<>>
              /\ Len(hbCalls) <= Len(env.converted)
              /\ raisedAt = "lib_convert" =>
                    /\ builder = None
                    /\ Len(env.returned) = Len(hbCalls) - 1
              /\ raisedAt = "lib_build" =>
                    builder # None /\ Len(hbCalls) = Len(env.converted)
        /\ cmd = "envelope" =>
              /\ io = <<>>
              /\ Len(hbCalls) = 1
              /\ env.built = <<>>
              /\ env.vis_set = <<>>
              /\ raisedAt = "env_convert" => builder = None /\ env.hb_model = None
              /\ raisedAt = "env_build" => builder # None

\* model_to_vis_set of the cli module, given a path to write to, has failed
\* in its conversion after the model file was read
C21_Witness ==
    /\ cmd = "model_to_vis"
    /\ ~viaCli
    /\ pc = "raised"
    /\ raisedAt = "build"
    /\ exc = "ConversionError"
    /\ args.output_file.kind = "str"
    /\ Len(io) = 1
    /\ Len(hbCalls) = 1

(***************************************************************************)
(* The repeatable attribute options, checked under SpecOptions             *)
(***************************************************************************)
\* C22 as stated: the descriptors the builder receives from the model-to-vis
\* command hold, in the order given, one descriptor for every occurrence of
\* --room-attr (and of --face-attr) whose value is not empty, whatever the
\* other occurrences are; with no occurrence there is no descriptor.
C22_EveryNonEmptyOccurrenceDescribed ==
    (cmd = "model_to_vis" /\ viaCli /\ builder # None) =>
        LET NonEmpty(names) == SelectSeq(names, LAMBDA n : n # "")
            Names(descriptors) == [i \in 1..Len(descriptors) |-> descriptors[i].name]
        IN
        /\ NonEmpty(Names(builder.room_attrs)) = NonEmpty(cliOpts.room_attr)
        /\ NonEmpty(Names(builder.face_attrs)) = NonEmpty(cliOpts.face_attr)
        /\ cliOpts.room_attr = <<>> => builder.room_attrs = <<>>
        /\ cliOpts.face_attr = <<>> => builder.face_attrs = <<>>

(***************************************************************************)
(* The layer of interior floor edges, checked under SpecLayers             *)
(***************************************************************************)
\* the wall-to-wall edges, coplanar ones included, whose angle to the
\* vertical is within the model's angle_tolerance, in degrees, of 90 degrees,
\* both ends included; in the order of the list
EdgesWithinTolerance ==
    SelectSeq(env.hb_model.walls_to_walls,
              LAMBDA e : /\ (90 - env.model.angle_tolerance) * UnitsPerDegree <= e.angle
                         /\ e.angle <= (90 + env.model.angle_tolerance) * UnitsPerDegree)

\* C23: with FloorPlatesOnly the layer made here holds exactly the
\* wall-to-wall edges, recomputed without coplanar exclusion, whose angle a to
\* the vertical has 90 - angle_tolerance <= a <= 90 + angle_tolerance in
\* degrees, both bounds included, in the order of the recomputed list, each
\* as one display segment of color 200/255/200 and line width 2; with no
\* such edge no layer is made.
C23_LevelEdgesKeptInOrder ==
    (EnvelopeReturned /\ env.coplanar_type = "FloorPlatesOnly") =>
        /\ Cardinality(AddedAt) = IF EdgesWithinTolerance = <<>> THEN 0 ELSE 1
        /\ \A k \in AddedAt :
              /\ Len(env.vis_set[k].geometry) = Len(EdgesWithinTolerance)
              /\ \A i \in 1..Len(EdgesWithinTolerance) :
                    env.vis_set[k].geometry[i] =
                        [kind |-> "DisplayLineSegment3D",
                         seg |-> EdgesWithinTolerance[i],
                         color |-> <<200, 255, 200>>, line_width |-> 2]

\* two edges at the two ends of the tolerance, the upper one first, were
\* kept in that order out of a list with an edge just outside between them
C23_Witness ==
    /\ EnvelopeReturned
    /\ env.coplanar_type = "FloorPlatesOnly"
    /\ env.model.angle_tolerance = 1
    /\ Len(env.hb_model.walls_to_walls) = 3
    /\ env.hb_model.walls_to_walls[1].angle = (90 + 1) * UnitsPerDegree
    /\ env.hb_model.walls_to_walls[2].angle = (90 + 1) * UnitsPerDegree + 1
    /\ env.hb_model.walls_to_walls[3].angle = (90 - 1) * UnitsPerDegree
    /\ \E k \in AddedAt :
          /\ Len(env.vis_set[k].geometry) = 2
          /\ env.vis_set[k].geometry[1].seg = env.hb_model.walls_to_walls[1]
          /\ env.vis_set[k].geometry[2].seg = env.hb_model.walls_to_walls[3]

\* C24 as stated: whenever the identifiers of the collaborator's layers are
\* unique, so are those of the returned set, for every coplanar_type and
\* every list of collaborator layers, one with a layer named
\* Interior_Floors_to_Walls included.
C24_IdentifiersStayUnique ==
    (/\ EnvelopeReturned
     /\ \A i, j \in 1..Len(env.built) :
           i # j => env.built[i].identifier # env.built[j].identifier) =>
        \A i, j \in 1..Len(env.vis_set) :
            i # j => env.vis_set[i].identifier # env.vis_set[j].identifier

\* C25: the post-processing changes the collaborator's set by at most one
\* insertion: the returned set is the collaborator's, or it is the
\* collaborator's with one layer put in, so every layer of the collaborator
\* is there as it was built, in the same relative order, and the number of
\* layers is the same or one more.
C25_AtMostOneInsertion ==
    EnvelopeReturned =>
        /\ Len(env.vis_set) \in {Len(env.built), Len(env.built) + 1}
        /\ Len(env.vis_set) = Len(env.built) => env.vis_set = env.built
        /\ Len(env.vis_set) = Len(env.built) + 1 =>
              \E k \in 1..Len(env.vis_set) :
                  /\ Without(env.vis_set, k) = env.built
                  /\ env.vis_set[k].identifier = "Interior_Floors_to_Walls"
                  /\ \A g \in 1..Len(env.vis_set[k].geometry) :
                        env.vis_set[k].geometry[g].kind = "DisplayLineSegment3D"

\* the layer was put in front of Roof_Ridges and behind Roofs_to_Walls, two
\* layers of the collaborator that are both still there
C25_Witness ==
    /\ EnvelopeReturned
    /\ Len(env.built) = 2
    /\ Len(env.vis_set) = 3
    /\ env.vis_set[1] = env.built[1]
    /\ env.vis_set[1].identifier = "Roofs_to_Walls"
    /\ env.vis_set[2].identifier = "Interior_Floors_to_Walls"
    /\ env.vis_set[3] = env.built[2]
    /\ env.vis_set[3].identifier = "Roof_Ridges"

(***************************************************************************)
(* The trailing keywords of model_to_vis_set, checked under SpecKeywords   *)
(***************************************************************************)
\* the arguments a with the seven trailing keywords put to their defaults
WithDefaultKeywords(a) ==
    [p \in DOMAIN a |->
        IF p \in {"multiplier", "no_ceil_adjacency", "wireframe", "mesh",
                  "show_color_by", "color_attr", "show_grid"}
        THEN CliModelToVisDefaults[p] ELSE a[p]]

\* C26: what model_to_vis_set of the cli module converts, builds, writes and
\* returns is what the same call with multiplier, no_ceil_adjacency,
\* wireframe, mesh, show_color_by, color_attr and show_grid left at their
\* defaults converts, builds, writes and returns; the values in effect come
\* from full_geometry, ceil_adjacency, exclude_wireframe, faces,
\* hide_color_by, text_attr and hide_grid.
C26_TrailingKeywordsIgnored ==
    (cmd = "model_to_vis" /\ ~viaCli /\ Len(loaded) = 1) =>
        LET b   == ToVisSetCall(WithDefaultKeywords(args), loaded[1])
            set == BuiltVisSet(ModelToVisSetBuilderArgs(b))
        IN
        /\ \A i \in 1..Len(hbCalls) :
              /\ hbCalls[i] = ModelToVisSetConversion(b)
              /\ hbCalls[i].use_multiplier = ~args.full_geometry
              /\ args.ceil_adjacency \in {hbCalls[i].exclude_plenums,
                                          hbCalls[i].solve_ceiling_adjacencies}
        /\ builder # None =>
              /\ builder = ModelToVisSetBuilderArgs(b)
              /\ builder.include_wireframe = ~args.exclude_wireframe
              /\ builder.use_mesh = ~args.faces
              /\ builder.hide_color_by = args.hide_color_by
              /\ builder.hide_grid = args.hide_grid
              /\ \A i \in 1..Len(builder.room_attrs) :
                    /\ builder.room_attrs[i].text = args.text_attr
                    /\ builder.room_attrs[i].color = ~args.text_attr
        /\ visSet # None => visSet = set
        /\ FormatterRan =>
              \E backend \in BackendStates, bytesOk \in BOOLEAN :
                  LET out == OutputVisSetToFormat(set, args.output_format,
                                                  args.output_file, backend,
                                                  bytesOk, TmpName)
                  IN /\ FormatterOps = out.io
                     /\ ret = out.ret
                     /\ exc = out.exc
                     /\ branch = out.branch

\* a call that passes every trailing keyword as False and leaves the other
\* parameters at their defaults has returned the set of the defaults
C26_Witness ==
    /\ cmd = "model_to_vis"
    /\ ~viaCli
    /\ pc = "returned"
    /\ \A p \in {"multiplier", "no_ceil_adjacency", "wireframe", "mesh",
                  "show_color_by", "color_attr", "show_grid"} : ~args[p]
    /\ \A p \in {"full_geometry", "ceil_adjacency", "exclude_wireframe", "faces",
                  "hide_color_by", "text_attr", "hide_grid"} : ~args[p]
    /\ hbCalls[1].use_multiplier
    /\ builder.include_wireframe
    /\ builder.use_mesh
    /\ builder.room_attrs[1].color
    /\ ret = Content("json", visSet)

====
